---- MODULE Spec2Model ----
(***************************************************************************)
(* Model of the srag ML sidecar service (python/srag_ml).                  *)
(*                                                                         *)
(* MlServer (server.py) is modelled as a set of threads over shared state: *)
(* the main thread (run / accept loop / shutdown), the idle monitor, and   *)
(* one worker per accepted connection (_handle_connection).  Each action   *)
(* is one step of one thread between two points at which another thread    *)
(* can observe or change the shared state.                                 *)
(*                                                                         *)
(* The frame codec (_recv_message / _recv_exact / _send_message) is also   *)
(* modelled at byte level, under its own specification SpecFrame.          *)
(***************************************************************************)
EXTENDS Integers, Naturals, Sequences, FiniteSets, TLC

\* ------------------------------------------------------------------------
\* Bounds of the model
\* ------------------------------------------------------------------------
NumWorkers == 2
StartTime == 1000
TickSecs == 320
MaxTicks == 1

\* ------------------------------------------------------------------------
\* Program constants
\* ------------------------------------------------------------------------
MAX_EMBED_BATCH_SIZE == 64
MaxFrameLen == 10 * 1024 * 1024
idle_check_interval == 30
llm_idle_timeout == 300

\* _handle_generate, lines 213-218 (temperatures in tenths), and
\* MlServer.__init__, line 49: api_max_tokens
default_max_tokens == 1024
min_max_tokens == 1
max_max_tokens == 32768
default_temperature == 1
max_temperature == 20
api_max_tokens == 2048

PARSE_ERROR == -32700
INVALID_REQUEST == -32600
INTERNAL_ERROR == -32603
RESULT == 0

Workers == 1..NumWorkers
None == "None"

VARIABLES
  \* configuration, fixed by MlServer.__init__
  auth_token,       \* None, or the configured token
  api_provider,     \* "local" | "anthropic" | "openai"
  port_file,        \* None, or the configured path
  llm,              \* self._llm is not None
  api_client,       \* self._api_client is not None
  \* server core
  running,          \* self._running
  sock,             \* self._server_socket: "none" | "listening" | "closed"
  port_file_exists, \* the port_file is present on disk
  port_file_text,   \* what the port_file holds: "" | "port"
  lock,             \* self._lock: 0 when free, else the worker holding it
  main_pc,          \* position of the main thread
  alive,            \* the process has not exited
  \* model handles
  emb_model,        \* Embedder._model is not None
  rr_model,         \* Reranker._model is not None
  llm_model,        \* LlmEngine._model is not None
  llm_last_used,    \* LlmEngine._last_used
  now,              \* time.time()
  \* idle monitor thread
  mon_pc,
  mon_wake,
  \* connection workers
  pc,               \* position of each worker
  data,             \* payload of the frame the worker is handling
  cur,              \* the worker's locals req_id, method, params
  sent,             \* reply frames sent since the last frame was read
  reply,            \* the last reply frame sent for the current frame
  closedBy,         \* why the connection was closed
  hdr,              \* the frame header last received, <<>> when none
  result,           \* what the last reply frame sent for the current
                    \* frame carries as its result
  locals,           \* what the handler of the current frame has done: the
                    \* backend object it called, the arguments it passed,
                    \* the attributes model_status has read
  at_shutdown,      \* the workers that were executing generate when
                    \* shutdown was triggered
  \* one connection at byte level (specification SpecFrame)
  wire,             \* bytes written to the socket and not yet received
  peer_closed,      \* the writing side has closed the connection
  f_pc,             \* _recv_message: "header" | "payload" | "EOF" | "ValueError"
  f_need,           \* _recv_exact: n
  f_buf,            \* _recv_exact: data
  f_sent,           \* the payloads given to _send_message, in order
  f_got,            \* the payloads returned by _recv_message, in order
  \* one model handle of each kind, called directly (specification
  \* SpecHandle)
  h_model,          \* _model is not None
  h_last,           \* the last operation completed on the handle
  h_built,          \* runtimes constructed since the last unload
  h_ops,            \* operations completed on all handles
  h_call,           \* the last of them: <<handle, operation>>
  \* one download of the LLM's model file (specification SpecDownload)
  d_via,            \* who downloads, "none" before that is decided
  d_sha,            \* an expected SHA-256 is configured
  d_pc,             \* position in load / _download_model
  d_final,          \* the final file: "absent" | "good" | "bad"
  d_staging,        \* the .download file: "absent" | "partial" | "good" | "bad"
  d_err,            \* the error raised, "none" when none
  d_model,          \* the path and content of the file the runtime was
                    \* built from
  d_renamed,        \* the final file was put in place by this downloader
  \* an ExternalApiClient called directly (specification SpecApi)
  a_provider,       \* self._provider, "none" before construction
  a_redact,         \* self._redact_secrets
  a_key,            \* self._api_key is set
  a_key_src,        \* the constructor's api_key and the state of its
                    \* api_key_file
  a_client,         \* self._client is not None
  a_err,            \* the error raised by the last generate call
  a_total,          \* self._total_redactions
  a_prompt,         \* the prompt of the last generate call
  a_raw,            \* what the patterns matched in it, in table order
  a_sent,           \* the prompt handed to the provider by that call
  a_calls,          \* generate calls made
  \* one rerank request at a time (specification SpecRerank)
  r_pc,             \* "idle" | "called" | "done"
  r_query,          \* params.get("query", "")
  r_scores,         \* what the runtime yields for the documents, in input
                    \* order; its length is len(documents)
  r_top_k,          \* params.get("top_k"), Absent when there is none
  r_out,            \* the results returned
  r_err,            \* the error raised, "none" when none
  \* an LlmEngine called directly (specification SpecEngine)
  e_model,          \* self._model: None, or the path the runtime was built
                    \* from
  e_model_path,     \* self._model_path
  e_built,          \* runtimes constructed so far
  e_last_used,      \* self._last_used
  e_now,            \* time.time()
  e_files,          \* the model files on disk
  e_downloads,      \* downloads attempted so far
  e_op,             \* the last call: its name, its path argument, whether it
                    \* returned
  e_ops,            \* calls made
  \* connections whose clients write ahead (specification SpecConn)
  k_running,        \* self._running
  k_pc,             \* where each connection's worker is in
                    \* _handle_connection
  k_inbox,          \* frames written by the client and not yet read
  k_written,        \* how many frames the client has written
  k_cur,            \* the frame the worker is handling
  k_read,           \* the frames read so far, by their position in the
                    \* client's stream
  k_replied,        \* the frames answered so far, by position
  k_after           \* how many frames the worker read after _running
                    \* became False

cfgVars == <<auth_token, api_provider, port_file, llm, api_client>>
srvVars == <<running, sock, port_file_exists, port_file_text, main_pc,
            alive>>
modelVars == <<emb_model, rr_model, llm_model, llm_last_used>>
monVars == <<mon_pc, mon_wake>>
connVars == <<pc, data, cur, sent, reply, closedBy, hdr, result, locals>>
frameVars == <<wire, peer_closed, f_pc, f_need, f_buf, f_sent, f_got>>
handleVars == <<h_model, h_last, h_built, h_ops, h_call>>
dlVars == <<d_via, d_sha, d_pc, d_final, d_staging, d_err, d_model,
           d_renamed>>
apiVars == <<a_provider, a_redact, a_key, a_key_src, a_client, a_err, a_total,
            a_prompt, a_raw, a_sent, a_calls>>
rrVars == <<r_pc, r_query, r_scores, r_top_k, r_out, r_err>>
engVars == <<e_model, e_model_path, e_built, e_last_used, e_now, e_files,
            e_downloads, e_op, e_ops>>
loopVars == <<k_running, k_pc, k_inbox, k_written, k_cur, k_read, k_replied,
             k_after>>
sideVars == <<handleVars, dlVars, apiVars, rrVars, engVars, loopVars>>
coreVars == <<cfgVars, srvVars, at_shutdown, lock, modelVars, now, monVars,
             connVars>>
serverVars == <<coreVars, sideVars>>
vars == <<serverVars, frameVars>>

\* ------------------------------------------------------------------------
\* Frame payloads and requests
\* ------------------------------------------------------------------------
\* A payload is what a client puts in a frame.  kind says what the bytes are:
\*   "object"    a JSON object
\*   "nonobject" valid JSON that is not an object ([], 7, "x", null)
\*   "malformed" valid UTF-8 that is not JSON
\*   "badutf8"   bytes that are not valid UTF-8
\* For an object: id is <<>> (no "id" member) or <<n>>; auth is the "_auth"
\* member; method, arg and n describe "method" and "params".
NoAuth == [type |-> "absent", val |-> ""]
StrAuth(s) == [type |-> "str", val |-> s]
IntAuth == [type |-> "int", val |-> "123"]

\* A JSON value of a member of params, as far as the handlers look at it:
\* absent, a string, true / false (val 1 / 0), NaN (which json.loads
\* accepts), or a number.  A number is val for max_tokens and val / 10 for
\* temperature.
Absent == [type |-> "absent", val |-> 0]
Str == [type |-> "str", val |-> 0]
NaN == [type |-> "nan", val |-> 0]
Bool(b) == [type |-> "bool", val |-> IF b THEN 1 ELSE 0]
Num(n) == [type |-> "number", val |-> n]

\* The members of params that have a default: strings says that every
\* element of texts is a string
NoOpt == [strings |-> TRUE, max_tokens |-> Absent, temperature |-> Absent]

Payload(kind, id, auth, method, arg, n) ==
  [kind |-> kind, id |-> id, auth |-> auth, method |-> method, arg |-> arg,
   n |-> n, opt |-> NoOpt]

NoData == Payload("none", <<>>, NoAuth, "", "", 0)
NoCall == [id |-> 0, method |-> "", arg |-> "", n |-> 0, opt |-> NoOpt]
NoLocals == [called |-> "none", args |-> <<>>, tokens |-> Absent, reads |-> <<>>]
NoReply == [id |-> 0, code |-> 1]
NoOp == [name |-> "none", path |-> "None", ok |-> TRUE]
NumConns == 2
Conns == 1..NumConns
NoFrame == [seq |-> 0, kind |-> "none"]

\* _handle_model_status, lines 283 and 285: the memory heuristics; None is 0
\* here, and rss_mb stands for what psutil reports for the process
embedder_memory_mb == 90
reranker_memory_mb == 100
rss_mb == 1
NoMemory == 0
NoResult == [backend |-> "none", status |-> <<>>, error |-> "none"]

\* The three kinds of model handle: Embedder, Reranker, LlmEngine
Handles == {"embedder", "reranker", "llm"}

\* LlmEngine._model is None
NoModel == [path |-> "none", content |-> "none"]

\* No prompt was handed to a provider
NoPrompt == <<"none">>

LockMethods_Mutant ==
  {"embed", "generate", "rerank", "load_model", "unload_model", "ping",
   "model_status", "shutdown"}

\* The handlers whose body is `with self._lock:`, and the others
LockMethods == {"embed", "generate", "rerank", "load_model", "unload_model"}
FreeMethods == {"ping", "model_status", "shutdown"}

\* json.loads(data)
JsonLoads(p) ==
  CASE p.kind \in {"object", "nonobject"} -> "value"
    [] p.kind = "malformed" -> "JSONDecodeError"
    [] p.kind = "badutf8" -> "UnicodeDecodeError"

GetId_Mutant(p) == 0

\* request.get("id", 0)
GetId(p) == IF p.id = <<>> THEN 0 ELSE p.id[1]

\* request.get("_auth", "")
GetAuth(p) == IF p.auth.type = "absent" THEN StrAuth("") ELSE p.auth

\* hmac.compare_digest(provided, self._auth_token)
CompareDigest(a, tok) ==
  IF a.type # "str" THEN "TypeError"
  ELSE IF a.val = tok THEN "equal" ELSE "differ"

\* if self._auth_token:
AuthEnabled == auth_token \notin {None, ""}

\* struct.unpack(">I", header)[0]
Unpack(h) == ((h[1] * 256 + h[2]) * 256 + h[3]) * 256 + h[4]

TooLarge_Mutant(length) == length >= MaxFrameLen

\* _recv_message, line 312
TooLarge(length) == length > MaxFrameLen

\* _recv_message on a client that sends the header h and then, when
\* complete, as many payload bytes as h declares (otherwise closes early)
RecvMessage(h, complete) ==
  IF Len(h) < 4 THEN "None"
  ELSE IF TooLarge(Unpack(h)) THEN "ValueError"
  ELSE IF complete THEN "data" ELSE "None"

IdleSeconds_Mutant == IF llm_last_used = 0 THEN 0 ELSE llm_last_used - now

\* LlmEngine.idle_seconds
IdleSeconds == IF llm_last_used = 0 THEN 0 ELSE now - llm_last_used

HasLlm_Mutant == TRUE

\* self._llm is not None
HasLlm == llm

\* _handle_generate, line 221: self._api_client is not None
UseApiClient == api_client

IsLocal_Mutant(provider) == TRUE

\* MlServer.__init__, line 66: api_provider == "local"
IsLocal(provider) == provider = "local"

\* ------------------------------------------------------------------------
\* Initial state: after MlServer.__init__
\* ------------------------------------------------------------------------
InitWith(tokens, providers, portfiles) ==
  /\ auth_token \in tokens
  /\ api_provider \in providers
  /\ port_file \in portfiles
  /\ llm = IsLocal(api_provider)
  /\ api_client = ~IsLocal(api_provider)
  /\ running = FALSE
  /\ sock = "none"
  /\ port_file_exists = FALSE
  /\ port_file_text = ""
  /\ lock = 0
  /\ main_pc = "constructed"
  /\ alive = TRUE
  /\ emb_model = FALSE
  /\ rr_model = FALSE
  /\ llm_model = FALSE
  /\ llm_last_used = 0
  /\ now = StartTime
  /\ mon_pc = "off"
  /\ mon_wake = 0
  /\ pc = [w \in Workers |-> "unborn"]
  /\ data = [w \in Workers |-> NoData]
  /\ cur = [w \in Workers |-> NoCall]
  /\ sent = [w \in Workers |-> 0]
  /\ reply = [w \in Workers |-> NoReply]
  /\ closedBy = [w \in Workers |-> None]
  /\ hdr = [w \in Workers |-> <<>>]
  /\ result = [w \in Workers |-> NoResult]
  /\ locals = [w \in Workers |-> NoLocals]
  /\ at_shutdown = {}
  /\ wire = <<>>
  /\ peer_closed = FALSE
  /\ f_pc = "header"
  /\ f_need = 4
  /\ f_buf = <<>>
  /\ f_sent = <<>>
  /\ f_got = <<>>
  /\ h_model = [k \in Handles |-> FALSE]
  /\ h_last = [k \in Handles |-> "none"]
  /\ h_built = [k \in Handles |-> 0]
  /\ h_ops = 0
  /\ h_call = <<>>
  /\ d_via = "none"
  /\ d_sha = FALSE
  /\ d_pc = "idle"
  /\ d_final = "absent"
  /\ d_staging = "absent"
  /\ d_err = "none"
  /\ d_model = NoModel
  /\ d_renamed = FALSE
  /\ a_provider = "none"
  /\ a_redact = FALSE
  /\ a_key = FALSE
  /\ a_key_src = <<>>
  /\ a_client = FALSE
  /\ a_err = "none"
  /\ a_total = 0
  /\ a_prompt = <<>>
  /\ a_raw = <<>>
  /\ a_sent = NoPrompt
  /\ a_calls = 0
  /\ r_pc = "idle"
  /\ r_query = ""
  /\ r_scores = <<>>
  /\ r_top_k = Absent
  /\ r_out = <<>>
  /\ r_err = "none"
  /\ e_model = None
  /\ e_model_path = None
  /\ e_built = 0
  /\ e_last_used = 0
  /\ e_now = StartTime
  /\ e_files = {}
  /\ e_downloads = 0
  /\ e_op = NoOp
  /\ e_ops = 0
  /\ k_running = TRUE
  /\ k_pc = [c \in Conns |-> "loop"]
  /\ k_inbox = [c \in Conns |-> <<>>]
  /\ k_written = [c \in Conns |-> 0]
  /\ k_cur = [c \in Conns |-> NoFrame]
  /\ k_read = [c \in Conns |-> <<>>]
  /\ k_replied = [c \in Conns |-> <<>>]
  /\ k_after = [c \in Conns |-> 0]

\* ------------------------------------------------------------------------
\* Main thread: MlServer.run, MlServer.shutdown, __main__.main
\* ------------------------------------------------------------------------
\* run(), lines 95-104: bind, listen, self._running = True
RunStart ==
  /\ alive /\ main_pc = "constructed"
  /\ sock' = "listening"
  /\ running' = TRUE
  /\ main_pc' = IF port_file # None THEN "port_file" ELSE "monitor"
  /\ UNCHANGED <<frameVars, sideVars, cfgVars, at_shutdown, alive, lock, modelVars, now,
                 port_file_exists, port_file_text, monVars, connVars>>

\* run(), line 107: port_path.write_text(...) opens the file for writing,
\* which creates it, or empties it when it exists
RunOpenPortFile ==
  /\ alive /\ main_pc = "port_file"
  /\ port_file_exists' = TRUE
  /\ port_file_text' = ""
  /\ main_pc' = "port_write"
  /\ UNCHANGED <<frameVars, sideVars, cfgVars, at_shutdown, alive, lock, modelVars, now,
                 running, sock, monVars, connVars>>

\* run(), line 107: write_text then writes str(assigned_port) and closes
RunWritePortFile ==
  /\ alive /\ main_pc = "port_write"
  /\ port_file_text' = "port"
  /\ main_pc' = "monitor"
  /\ UNCHANGED <<frameVars, sideVars, cfgVars, at_shutdown, alive, lock, modelVars, now,
                 running, sock, port_file_exists, monVars, connVars>>

\* run(), lines 111-112: the idle monitor thread is started
RunStartMonitor ==
  /\ alive /\ main_pc = "monitor"
  /\ mon_pc' = "test"
  /\ main_pc' = "loop"
  /\ UNCHANGED <<frameVars, sideVars, cfgVars, at_shutdown, alive, lock, modelVars, now,
                 running, sock, port_file_exists, port_file_text, mon_wake,
                 connVars>>

\* run(), line 114: while self._running
MainLoop ==
  /\ alive /\ main_pc = "loop"
  /\ main_pc' = IF running THEN "accept" ELSE "returned"
  /\ UNCHANGED <<frameVars, sideVars, cfgVars, at_shutdown, running, sock,
                 port_file_exists, port_file_text, alive, lock,
                 modelVars, now, monVars, connVars>>

\* run(), lines 116-119: accept() returns a connection, a worker is started.
\* Workers are interchangeable: the next connection gets the lowest free one.
Accept(w) ==
  /\ alive /\ main_pc = "accept" /\ sock = "listening"
  /\ pc[w] = "unborn"
  /\ \A v \in Workers : v < w => pc[v] # "unborn"
  /\ pc' = [pc EXCEPT ![w] = "loop"]
  /\ main_pc' = "loop"
  /\ UNCHANGED <<frameVars, sideVars, cfgVars, at_shutdown, running, sock,
                 port_file_exists, port_file_text, alive, lock,
                 modelVars, now, monVars, data, cur, sent, reply, closedBy, hdr, result>>
  /\ UNCHANGED locals

\* run(), lines 120-121: accept() times out after 1 s
AcceptTimeout ==
  /\ alive /\ main_pc = "accept"
  /\ main_pc' = "loop"
  /\ UNCHANGED <<frameVars, sideVars, cfgVars, at_shutdown, running, sock,
                 port_file_exists, port_file_text, alive, lock,
                 modelVars, now, monVars, connVars>>

\* A worker is inside the generate handler, past the validation of its
\* params: in LlmEngine.generate
GenExecuting(w) ==
  /\ cur[w].method = "generate"
  /\ pc[w] \in {"llm_load", "llm_built", "gen_call", "gen_infer"}

\* self._running = False; at_shutdown records who was generating the first
\* time this happens
StopRunning ==
  /\ running' = FALSE
  /\ at_shutdown' = IF running THEN {w \in Workers : GenExecuting(w)}
                               ELSE at_shutdown

\* main(), lines 105-108: KeyboardInterrupt during run() -> shutdown()
Interrupt ==
  /\ alive /\ main_pc \in {"loop", "accept"}
  /\ StopRunning
  /\ sock' = "closed"
  /\ port_file_exists' = FALSE
  /\ port_file_text' = ""
  /\ emb_model' = FALSE
  /\ llm_model' = IF HasLlm THEN FALSE ELSE llm_model
  /\ main_pc' = "sys_exit"
  /\ UNCHANGED <<frameVars, sideVars, cfgVars, alive, lock, rr_model, llm_last_used,
                 now, monVars, connVars>>

\* The main thread ends: sys.exit(0) after shutdown(), or main() returning
\* after run() left its loop.  Workers and the monitor are daemon threads
\* (lines 111, 117-119) that nobody joins, so they end with the process;
\* the operating system closes the listening socket.
ProcessExit ==
  /\ alive /\ main_pc \in {"returned", "sys_exit"}
  /\ alive' = FALSE
  /\ main_pc' = "exited"
  /\ sock' = "closed"
  /\ UNCHANGED <<frameVars, sideVars, cfgVars, at_shutdown, running, port_file_exists, port_file_text,
                 lock, modelVars, now,
                 monVars, connVars>>

\* ------------------------------------------------------------------------
\* Time and the idle monitor
\* ------------------------------------------------------------------------
\* Time passes while threads sit in blocking calls (accept, recv, sleep,
\* the wait for the lock, a download, a model load, an inference).  The few
\* statements between two such calls are taken to last less than a tick.
Tick ==
  /\ alive
  /\ \A w \in Workers : pc[w] \notin {"got", "llm_built", "gen_call"}
  /\ mon_pc # "unload"
  /\ now + TickSecs <= StartTime + MaxTicks * TickSecs
  /\ now' = now + TickSecs
  /\ UNCHANGED <<frameVars, sideVars, cfgVars, at_shutdown, srvVars, lock, modelVars,
                 monVars, connVars>>

\* _idle_monitor, lines 298-299: while self._running: time.sleep(...)
MonLoop ==
  /\ alive /\ mon_pc = "test"
  /\ IF running
       THEN mon_pc' = "sleep" /\ mon_wake' = now + idle_check_interval
       ELSE mon_pc' = "done" /\ mon_wake' = mon_wake
  /\ UNCHANGED <<frameVars, sideVars, cfgVars, at_shutdown, srvVars, lock, modelVars, now,
                 connVars>>

\* _idle_monitor, lines 300-302: the sleep is over, the condition is read
MonCheck ==
  /\ alive /\ mon_pc = "sleep" /\ now >= mon_wake
  /\ mon_pc' = IF HasLlm /\ llm_model /\ IdleSeconds > llm_idle_timeout
                 THEN "unload" ELSE "test"
  /\ UNCHANGED <<frameVars, sideVars, cfgVars, at_shutdown, srvVars, lock, modelVars, now,
                 mon_wake, connVars>>

\* _idle_monitor, line 304: self._llm.unload(), no lock taken
MonUnload ==
  /\ alive /\ mon_pc = "unload"
  /\ llm_model' = FALSE
  /\ mon_pc' = "test"
  /\ UNCHANGED <<frameVars, sideVars, cfgVars, at_shutdown, srvVars, lock, emb_model,
                 rr_model, llm_last_used,
                 now, mon_wake, connVars>>

\* ------------------------------------------------------------------------
\* Connection workers: MlServer._handle_connection
\* ------------------------------------------------------------------------
otherVars == <<frameVars, sideVars, cfgVars, srvVars, at_shutdown, lock, modelVars, now,
              monVars>>

\* params.get("texts", []), params.get("documents", []): the length of
\* the list, n = -1 standing for the member being absent
ParamLen(n) == IF n = -1 THEN 0 ELSE n

\* What the handler of the worker's request returns, as far as it is
\* looked at: the three loaded flags of model_status (lines 276-282), the
\* backend that served a generate (lines 221-234), and the message of the
\* exception a handler raised (line 166: str(e))
HandlerError(w) ==
  CASE cur[w].method = "load_model" /\ cur[w].arg = "llm" /\ ~HasLlm ->
         "Local LLM not available - using external API"
    [] cur[w].method = "load_model"
         /\ cur[w].arg \notin {"absent", "embedder", "llm"} ->
         "Unknown model type"
    [] cur[w].method = "embed" /\ ParamLen(cur[w].n) = 0 ->
         "No texts provided"
    [] cur[w].method = "embed" /\ cur[w].n > MAX_EMBED_BATCH_SIZE ->
         "Batch size exceeds maximum"
    [] OTHER -> "other"

\* _handle_model_status, lines 279-286: the result's embedder_loaded,
\* llm_loaded, reranker_loaded, embedder_memory_mb, process_memory_mb and
\* reranker_memory_mb, from what was read
MemoryOf(loaded, mb) == IF loaded THEN mb ELSE NoMemory
StatusResult(reads) ==
  <<reads[3], reads[1], reads[4], reads[5], reads[2], reads[6]>>

HandlerResult(w, code) ==
  IF code # RESULT
    THEN [backend |-> "none", status |-> <<>>, error |-> HandlerError(w)]
  ELSE CASE cur[w].method = "model_status" ->
              [backend |-> "none",
               status |-> StatusResult(locals[w].reads \o
                            <<MemoryOf(emb_model, embedder_memory_mb),
                              MemoryOf(rr_model, reranker_memory_mb)>>),
               error |-> "none"]
         [] cur[w].method = "generate" ->
              [backend |-> IF UseApiClient THEN "api" ELSE "llm",
               status |-> <<>>, error |-> "none"]
         [] OTHER -> NoResult

\* The worker leaves its loop (break, or an exception that reaches the
\* finally clause): conn.close()
Close(w, why) ==
  /\ pc' = [pc EXCEPT ![w] = "closed"]
  /\ closedBy' = [closedBy EXCEPT ![w] = why]
  /\ data' = [data EXCEPT ![w] = NoData]
  /\ cur' = [cur EXCEPT ![w] = NoCall]
  /\ UNCHANGED <<sent, reply, hdr, result>>

\* _send_result / _send_error followed by the next loop iteration
Send(w, code, id) ==
  /\ sent' = [sent EXCEPT ![w] = @ + 1]
  /\ reply' = [reply EXCEPT ![w] = [id |-> id, code |-> code]]
  /\ pc' = [pc EXCEPT ![w] = "loop"]
  /\ data' = [data EXCEPT ![w] = NoData]
  /\ cur' = [cur EXCEPT ![w] = NoCall]
  /\ result' = [result EXCEPT ![w] = HandlerResult(w, code)]
  /\ UNCHANGED <<closedBy, hdr>>

\* A reply is written, unless the client is gone and sendall raises
Respond(w, code, id) ==
  \/ Send(w, code, id)
  \/ Close(w, "BrokenPipeError")

\* line 141: while self._running.  sent and reply describe what the worker
\* wrote for the frame it has just handled; they start afresh here.
WLoop(w) ==
  /\ alive /\ pc[w] = "loop"
  /\ sent' = [sent EXCEPT ![w] = 0]
  /\ reply' = [reply EXCEPT ![w] = NoReply]
  /\ hdr' = [hdr EXCEPT ![w] = <<>>]
  /\ result' = [result EXCEPT ![w] = NoResult]
  /\ locals' = [locals EXCEPT ![w] = NoLocals]
  /\ IF running
       THEN /\ pc' = [pc EXCEPT ![w] = "recv"]
            /\ UNCHANGED <<data, cur, closedBy>>
       ELSE /\ pc' = [pc EXCEPT ![w] = "closed"]
            /\ closedBy' = [closedBy EXCEPT ![w] = "stopped"]
            /\ UNCHANGED <<data, cur>>
  /\ UNCHANGED otherVars

\* lines 142-144: data = self._recv_message(conn) returns a payload.
\* The client sent the header h and all the bytes it declares.
WRecv(w, h, p) ==
  /\ alive /\ pc[w] = "recv"
  /\ RecvMessage(h, TRUE) = "data"
  /\ pc' = [pc EXCEPT ![w] = "got"]
  /\ data' = [data EXCEPT ![w] = p]
  /\ hdr' = [hdr EXCEPT ![w] = h]
  /\ UNCHANGED <<cur, sent, reply, closedBy, result>>
  /\ UNCHANGED otherVars
  /\ UNCHANGED locals

\* lines 142-144: self._recv_message(conn) returns None (the client closed
\* before the end of the header or of the payload: break) or raises
\* ValueError (frame too large, caught nowhere)
WRecvNone(w, h, complete) ==
  /\ alive /\ pc[w] = "recv"
  /\ LET r == RecvMessage(h, complete) IN
       /\ r # "data"
       /\ pc' = [pc EXCEPT ![w] = "closed"]
       /\ closedBy' = [closedBy EXCEPT ![w] = IF r = "None" THEN "EOF" ELSE r]
       /\ hdr' = [hdr EXCEPT ![w] = h]
       /\ UNCHANGED <<data, cur, sent, reply, result>>
  /\ UNCHANGED otherVars
  /\ UNCHANGED locals

\* conn.recv raises: the peer reset the connection, or the 30 s timeout
WRecvError(w, exc) ==
  /\ alive /\ pc[w] = "recv"
  /\ Close(w, exc)
  /\ UNCHANGED otherVars
  /\ UNCHANGED locals

\* lines 146-160: json.loads, the request's members, the auth check
WParse(w) ==
  /\ alive /\ pc[w] = "got"
  /\ LET p == data[w]
         j == JsonLoads(p)
         a == IF AuthEnabled /\ p.kind = "object"
                THEN CompareDigest(GetAuth(p), auth_token) ELSE "equal"
     IN  CASE j = "JSONDecodeError" -> Respond(w, PARSE_ERROR, 0)
           [] j = "UnicodeDecodeError" -> Close(w, "UnicodeDecodeError")
           [] j = "value" /\ p.kind # "object" -> Close(w, "AttributeError")
           [] j = "value" /\ p.kind = "object" /\ a = "TypeError" ->
                Close(w, "TypeError")
           [] j = "value" /\ p.kind = "object" /\ a = "differ" ->
                Respond(w, INVALID_REQUEST, GetId(p))
           [] j = "value" /\ p.kind = "object" /\ a = "equal" ->
                /\ pc' = [pc EXCEPT ![w] = "dispatch"]
                /\ cur' = [cur EXCEPT ![w] = [id |-> GetId(p),
                             method |-> p.method, arg |-> p.arg, n |-> p.n,
                             opt |-> p.opt]]
                /\ UNCHANGED <<data, sent, reply, closedBy, hdr, result>>
  /\ UNCHANGED otherVars
  /\ UNCHANGED locals

\* ------------------------------------------------------------------------
\* Handlers that take no lock
\* ------------------------------------------------------------------------
HPing(w) ==
  /\ alive /\ pc[w] = "dispatch" /\ cur[w].method = "ping"
  /\ Respond(w, RESULT, cur[w].id)
  /\ UNCHANGED otherVars
  /\ UNCHANGED locals

\* _handle_model_status reads the handles without self._lock, in this
\* order:
\*   1  line 276  self._llm.is_loaded                    (llm_loaded)
\*   2  line 277  self._llm.memory_estimate_mb(), which tests is_loaded
\*                again and is None when psutil is missing or fails
\*   3  line 280  self._embedder.is_loaded               (embedder_loaded)
\*   4  line 282  self._reranker.is_loaded               (reranker_loaded)
\*   5  line 283  90.0 if self._embedder.is_loaded else None
\*   6  line 285  100.0 if self._reranker.is_loaded else None
\* Other threads can run between any two of them.  The steps here are
\* read 1, then reads 2 to 4, then reads 5 and 6 with the reply, so that the
\* two reads of each handle are in different steps.
LlmMemory == IF HasLlm /\ llm_model THEN {rss_mb, NoMemory} ELSE {NoMemory}
StatusReads(done) ==
  IF done = 0 THEN {<<HasLlm /\ llm_model>>}
  ELSE {<<m, emb_model, rr_model>> : m \in LlmMemory}

HStatusRead(w) ==
  /\ alive /\ pc[w] = "dispatch" /\ cur[w].method = "model_status"
  /\ Len(locals[w].reads) \in {0, 1}
  /\ \E r \in StatusReads(Len(locals[w].reads)) :
        locals' = [locals EXCEPT ![w].reads = @ \o r]
  /\ UNCHANGED <<pc, data, cur, sent, reply, closedBy, hdr, result>>
  /\ UNCHANGED otherVars

HModelStatus(w) ==
  /\ alive /\ pc[w] = "dispatch" /\ cur[w].method = "model_status"
  /\ Len(locals[w].reads) = 4
  /\ Respond(w, RESULT, cur[w].id)
  /\ locals' = [locals EXCEPT ![w].reads = <<>>]
  /\ UNCHANGED otherVars

HShutdown(w) ==
  /\ alive /\ pc[w] = "dispatch" /\ cur[w].method = "shutdown"
  /\ StopRunning
  /\ Respond(w, RESULT, cur[w].id)
  /\ UNCHANGED <<frameVars, sideVars, cfgVars, sock, port_file_exists, port_file_text, main_pc, alive,
                 lock,
                 modelVars, now, monVars>>
  /\ UNCHANGED locals

\* _dispatch, lines 185-187: no such handler
HUnknown(w) ==
  /\ alive /\ pc[w] = "dispatch"
  /\ cur[w].method \notin LockMethods \cup FreeMethods
  /\ Respond(w, INTERNAL_ERROR, cur[w].id)
  /\ UNCHANGED otherVars
  /\ UNCHANGED locals

\* ------------------------------------------------------------------------
\* Handlers under self._lock
\* ------------------------------------------------------------------------
LockFree_Mutant(w) == TRUE

\* threading.Lock: acquire succeeds only when nobody holds the lock
LockFree(w) == lock = 0

\* with self._lock:  (entry)
HAcquire(w) ==
  /\ alive /\ pc[w] = "dispatch" /\ cur[w].method \in LockMethods
  /\ LockFree(w)
  /\ lock' = w
  /\ pc' = [pc EXCEPT ![w] = "locked"]
  /\ UNCHANGED <<frameVars, sideVars, cfgVars, at_shutdown, srvVars, modelVars, now,
                 monVars, data, cur, sent,
                 reply, closedBy, hdr, result>>
  /\ UNCHANGED locals

Unlocked_Mutant(w, code) == IF code = RESULT THEN 0 ELSE w

\* with self._lock:  (exit): the lock is released when the body returns and
\* when it raises
Unlocked(w, code) == 0

\* with self._lock:  (exit, by return or by exception), then the reply
Finish(w, code) ==
  /\ lock' = Unlocked(w, code)
  /\ Respond(w, code, cur[w].id)

EmbedRejected_Mutant(n) == n = 0 \/ n >= MAX_EMBED_BATCH_SIZE

\* _handle_embed, lines 197-202: the two checks of texts
EmbedRejected(n) == n = 0 \/ n > MAX_EMBED_BATCH_SIZE

\* _handle_embed; cur.n is len(texts).  Embedder.embed loads the model when
\* it is not loaded and then calls the runtime, which returns or raises.
HEmbed(w) ==
  /\ alive /\ pc[w] = "locked" /\ cur[w].method = "embed"
  /\ IF EmbedRejected(ParamLen(cur[w].n))
       THEN Finish(w, INTERNAL_ERROR) /\ UNCHANGED <<emb_model, locals>>
       ELSE \E loaded \in (IF emb_model THEN {TRUE} ELSE BOOLEAN), ok \in BOOLEAN :
              /\ emb_model' = loaded
              /\ locals' = [locals EXCEPT ![w].called = "embedder"]
              /\ Finish(w, IF loaded /\ ok THEN RESULT ELSE INTERNAL_ERROR)
  /\ UNCHANGED <<frameVars, sideVars, cfgVars, at_shutdown, srvVars, rr_model, llm_model,
                 llm_last_used, now,
                 monVars>>

\* _handle_rerank; cur.arg is the query, cur.n is len(documents)
HRerank(w) ==
  /\ alive /\ pc[w] = "locked" /\ cur[w].method = "rerank"
  /\ IF cur[w].arg = "" \/ ParamLen(cur[w].n) = 0
       THEN Finish(w, INTERNAL_ERROR) /\ UNCHANGED <<rr_model, locals>>
       ELSE \E loaded \in (IF rr_model THEN {TRUE} ELSE BOOLEAN), ok \in BOOLEAN :
              /\ rr_model' = loaded
              /\ locals' = [locals EXCEPT ![w].called = "reranker"]
              /\ Finish(w, IF loaded /\ ok THEN RESULT ELSE INTERNAL_ERROR)
  /\ UNCHANGED <<frameVars, sideVars, cfgVars, at_shutdown, srvVars, emb_model, llm_model,
                 llm_last_used, now,
                 monVars>>

\* _handle_load_model; cur.arg is params["type"], "absent" when missing
HLoadModel(w) ==
  /\ alive /\ pc[w] = "locked" /\ cur[w].method = "load_model"
  /\ LET type == IF cur[w].arg = "absent" THEN "embedder" ELSE cur[w].arg IN
       CASE type = "embedder" ->
              \E loaded \in (IF emb_model THEN {TRUE} ELSE BOOLEAN) :
                /\ emb_model' = loaded
                /\ locals' = [locals EXCEPT ![w].called = "embedder"]
                /\ Finish(w, IF loaded THEN RESULT ELSE INTERNAL_ERROR)
         [] type = "llm" /\ ~HasLlm ->
              Finish(w, INTERNAL_ERROR) /\ UNCHANGED <<emb_model, locals>>
         [] type = "llm" /\ HasLlm ->
              /\ pc' = [pc EXCEPT ![w] = "llm_load"]
              /\ locals' = [locals EXCEPT ![w].called = "llm"]
              /\ UNCHANGED <<lock, emb_model, data, cur, sent, reply, closedBy,
                             hdr, result>>
         [] OTHER -> Finish(w, INTERNAL_ERROR) /\ UNCHANGED <<emb_model, locals>>
  /\ UNCHANGED <<frameVars, sideVars, cfgVars, at_shutdown, srvVars, rr_model, llm_model,
                 llm_last_used, now,
                 monVars>>

\* _handle_unload_model; cur.arg is params["type"], "absent" when missing
HUnloadModel(w) ==
  /\ alive /\ pc[w] = "locked" /\ cur[w].method = "unload_model"
  /\ LET type == IF cur[w].arg = "absent" THEN "llm" ELSE cur[w].arg IN
       /\ emb_model' = IF type = "embedder" THEN FALSE ELSE emb_model
       /\ llm_model' = IF type = "llm" /\ HasLlm THEN FALSE ELSE llm_model
  /\ Finish(w, RESULT)
  /\ UNCHANGED <<frameVars, sideVars, cfgVars, at_shutdown, srvVars, rr_model,
                 llm_last_used, now, monVars>>
  /\ UNCHANGED locals

\* isinstance(v, (int, float)): bool is a subclass of int, NaN is a float
IsNumber(v) == v.type \in {"number", "bool", "nan"}

\* v < k and v > k as Python evaluates them; unit is what 1 is worth in val
\* (True compares as 1); every comparison with NaN is false
Below(v, k, unit) ==
  v.type # "nan" /\ (IF v.type = "bool" THEN v.val * unit ELSE v.val) < k
Above(v, k, unit) ==
  v.type # "nan" /\ (IF v.type = "bool" THEN v.val * unit ELSE v.val) > k

\* _handle_generate, lines 213-215: params.get("max_tokens", 1024) and the
\* range check
CoerceMaxTokens(v) ==
  LET got == IF v = Absent THEN Num(default_max_tokens) ELSE v IN
    IF ~IsNumber(got) \/ Below(got, min_max_tokens, 1)
         \/ Above(got, max_max_tokens, 1)
      THEN Num(default_max_tokens) ELSE got

\* _handle_generate, lines 216-218: params.get("temperature", 0.1) and the
\* range check; temperatures are in tenths
CoerceTemperature(v) ==
  LET got == IF v = Absent THEN Num(default_temperature) ELSE v IN
    IF ~IsNumber(got) \/ Below(got, 0, 10) \/ Above(got, max_temperature, 10)
      THEN Num(default_temperature) ELSE got

\* bool(v) for a value that passed CoerceMaxTokens
Truthy(v) == v.type = "nan" \/ v.val # 0

\* ExternalApiClient.generate, line 108: tokens = max_tokens or
\* self._max_tokens
ApiTokens(max_tokens, ctor_max_tokens) ==
  IF max_tokens # Absent /\ Truthy(max_tokens) THEN max_tokens
  ELSE Num(ctor_max_tokens)

\* _handle_generate up to the call of the backend; cur.arg is the prompt.
\* With an external provider the whole call is made here.
HGenerate(w) ==
  /\ alive /\ pc[w] = "locked" /\ cur[w].method = "generate"
  /\ LET max_tokens == CoerceMaxTokens(cur[w].opt.max_tokens)
         temperature == CoerceTemperature(cur[w].opt.temperature)
     IN
     CASE cur[w].arg = "" -> Finish(w, INTERNAL_ERROR) /\ UNCHANGED locals
       [] cur[w].arg # "" /\ UseApiClient ->
            /\ locals' = [locals EXCEPT
                 ![w].called = "api",
                 ![w].args = <<max_tokens, temperature>>,
                 ![w].tokens = ApiTokens(max_tokens, api_max_tokens)]
            /\ \E ok \in BOOLEAN : Finish(w, IF ok THEN RESULT ELSE INTERNAL_ERROR)
       [] cur[w].arg # "" /\ ~UseApiClient /\ ~HasLlm ->
            \* self._llm is None: AttributeError
            Finish(w, INTERNAL_ERROR) /\ UNCHANGED locals
       [] cur[w].arg # "" /\ ~UseApiClient /\ HasLlm ->
            \* LlmEngine.generate, line 100
            /\ locals' = [locals EXCEPT
                 ![w].called = "llm",
                 ![w].args = <<max_tokens, temperature>>]
            /\ pc' = [pc EXCEPT ![w] = IF llm_model THEN "gen_call" ELSE "llm_load"]
            /\ UNCHANGED <<lock, data, cur, sent, reply, closedBy, hdr, result>>
  /\ UNCHANGED <<frameVars, sideVars, cfgVars, at_shutdown, srvVars, modelVars, now,
                 monVars>>

\* LlmEngine.load, lines 59-87: refresh when loaded, else resolve the path,
\* download when the file is missing, construct the runtime
LlmLoad(w) ==
  /\ alive /\ pc[w] = "llm_load"
  /\ IF llm_model
       THEN /\ llm_last_used' = now
            /\ UNCHANGED llm_model
            /\ IF cur[w].method = "generate"
                 THEN /\ pc' = [pc EXCEPT ![w] = "gen_call"]
                      /\ UNCHANGED <<lock, data, cur, sent, reply, closedBy,
                                     hdr, result>>
                 ELSE Finish(w, RESULT)
       ELSE \E ok \in BOOLEAN :
              IF ok
                THEN /\ llm_model' = TRUE
                     /\ pc' = [pc EXCEPT ![w] = "llm_built"]
                     /\ UNCHANGED <<llm_last_used, lock, data, cur, sent, reply,
                                    closedBy, hdr, result>>
                ELSE /\ Finish(w, INTERNAL_ERROR)
                     /\ UNCHANGED <<llm_model, llm_last_used>>
  /\ UNCHANGED <<frameVars, sideVars, cfgVars, at_shutdown, srvVars, emb_model, rr_model,
                 now, monVars>>
  /\ UNCHANGED locals

\* LlmEngine.load, lines 88-89, and the return to the caller
LlmLoadDone(w) ==
  /\ alive /\ pc[w] = "llm_built"
  /\ llm_last_used' = now
  /\ IF cur[w].method = "generate"
       THEN /\ pc' = [pc EXCEPT ![w] = "gen_call"]
            /\ UNCHANGED <<lock, data, cur, sent, reply, closedBy, hdr, result>>
       ELSE Finish(w, RESULT)
  /\ UNCHANGED <<frameVars, sideVars, cfgVars, at_shutdown, srvVars, emb_model, rr_model,
                 llm_model, now, monVars>>
  /\ UNCHANGED locals

\* LlmEngine.generate, lines 103-105: refresh, then self._model.create_...
GenCall(w) ==
  /\ alive /\ pc[w] = "gen_call"
  /\ llm_last_used' = now
  /\ IF llm_model
       THEN /\ pc' = [pc EXCEPT ![w] = "gen_infer"]
            /\ UNCHANGED <<lock, data, cur, sent, reply, closedBy, hdr, result>>
       ELSE Finish(w, INTERNAL_ERROR)
  /\ UNCHANGED <<frameVars, sideVars, cfgVars, at_shutdown, srvVars, emb_model, rr_model,
                 llm_model, now, monVars>>
  /\ UNCHANGED locals

\* LlmEngine.generate, lines 105-115: the runtime returns or raises
GenDone(w) ==
  /\ alive /\ pc[w] = "gen_infer"
  /\ \E ok \in BOOLEAN : Finish(w, IF ok THEN RESULT ELSE INTERNAL_ERROR)
  /\ UNCHANGED <<frameVars, sideVars, cfgVars, at_shutdown, srvVars, modelVars, now,
                 monVars>>
  /\ UNCHANGED locals

\* ------------------------------------------------------------------------
\* Specifications
\* ------------------------------------------------------------------------
Headers == {<<>>, <<0, 0, 0, 2>>, <<0, 160, 0, 0>>, <<0, 160, 0, 1>>,
            <<127, 255, 255, 255>>}
RecvErrors == {"ConnectionResetError", "timeout"}

Call(id, auth, method, arg, n) == Payload("object", id, auth, method, arg, n)
CallOpt(id, method, arg, n, opt) ==
  [Call(id, NoAuth, method, arg, n) EXCEPT !.opt = opt]

\* Every step of every thread, time aside
Steps(W, P, H, E) ==
  \/ RunStart
  \/ RunOpenPortFile
  \/ RunWritePortFile
  \/ RunStartMonitor
  \/ MainLoop
  \/ \E w \in W : Accept(w)
  \/ AcceptTimeout
  \/ Interrupt
  \/ ProcessExit
  \/ MonLoop
  \/ MonCheck
  \/ MonUnload
  \/ \E w \in W : WLoop(w)
  \/ \E w \in W, h \in H, p \in P : WRecv(w, h, p)
  \/ \E w \in W, h \in H, c \in BOOLEAN : WRecvNone(w, h, c)
  \/ \E w \in W, e \in E : WRecvError(w, e)
  \/ \E w \in W : WParse(w)
  \/ \E w \in W : HPing(w)
  \/ \E w \in W : HStatusRead(w)
  \/ \E w \in W : HModelStatus(w)
  \/ \E w \in W : HShutdown(w)
  \/ \E w \in W : HUnknown(w)
  \/ \E w \in W : HAcquire(w)
  \/ \E w \in W : HEmbed(w)
  \/ \E w \in W : HRerank(w)
  \/ \E w \in W : HLoadModel(w)
  \/ \E w \in W : HUnloadModel(w)
  \/ \E w \in W : HGenerate(w)
  \/ \E w \in W : LlmLoad(w)
  \/ \E w \in W : LlmLoadDone(w)
  \/ \E w \in W : GenCall(w)
  \/ \E w \in W : GenDone(w)

NextOver(W, P, H, E) ==
  \/ Tick
  \/ Steps(W, P, H, E)

\* The server with a local LLM and no auth token, several connections.
\* rerank, which runs as embed does, and unknown methods are left to the
\* specifications below.
Payloads ==
  { Call(<<1>>, NoAuth, "generate", "p", 0),
    Call(<<1>>, NoAuth, "load_model", "llm", 0),
    Call(<<1>>, NoAuth, "unload_model", "absent", 0),
    Call(<<1>>, NoAuth, "embed", "", 1),
    Call(<<1>>, NoAuth, "ping", "", 0),
    Call(<<1>>, NoAuth, "model_status", "", 0),
    Call(<<1>>, NoAuth, "shutdown", "", 0) }

Init == InitWith({None}, {"local"}, {"port_file"})
Next ==
  \/ Tick
  \/ RunStart
  \/ RunOpenPortFile
  \/ RunWritePortFile
  \/ RunStartMonitor
  \/ MainLoop
  \/ \E w \in Workers : Accept(w)
  \/ AcceptTimeout
  \/ Interrupt
  \/ ProcessExit
  \/ MonLoop
  \/ MonCheck
  \/ MonUnload
  \/ \E w \in Workers : WLoop(w)
  \/ \E w \in Workers, h \in {<<>>, <<0, 0, 0, 2>>}, p \in Payloads :
        WRecv(w, h, p)
  \/ \E w \in Workers, h \in {<<>>, <<0, 0, 0, 2>>}, c \in BOOLEAN :
        WRecvNone(w, h, c)
  \/ \E w \in Workers : WRecvError(w, "ConnectionResetError")
  \/ \E w \in Workers : WParse(w)
  \/ \E w \in Workers : HPing(w)
  \/ \E w \in Workers : HStatusRead(w)
  \/ \E w \in Workers : HModelStatus(w)
  \/ \E w \in Workers : HShutdown(w)
  \/ \E w \in Workers : HAcquire(w)
  \/ \E w \in Workers : HEmbed(w)
  \/ \E w \in Workers : HLoadModel(w)
  \/ \E w \in Workers : HUnloadModel(w)
  \/ \E w \in Workers : HGenerate(w)
  \/ \E w \in Workers : LlmLoad(w)
  \/ \E w \in Workers : LlmLoadDone(w)
  \/ \E w \in Workers : GenCall(w)
  \/ \E w \in Workers : GenDone(w)
Spec == Init /\ [][Next]_vars

\* The wire protocol on one connection: every kind of payload, every
\* header, with and without an auth token
NumProtoWorkers == 1
ProtoWorkers == 1..NumProtoWorkers

ProtoPayloads ==
  { Payload("malformed", <<>>, NoAuth, "", "", 0),
    Payload("badutf8", <<>>, NoAuth, "", "", 0),
    Payload("nonobject", <<>>, NoAuth, "", "", 0) }
  \cup { Call(id, a, m, "", 0) :
           id \in {<<>>, <<2>>},
           a \in {NoAuth, StrAuth("tok"), StrAuth("bad"), IntAuth},
           m \in {"ping", "shutdown"} }
  \cup { Call(<<3>>, a, "unload_model", "embedder", 0) :
           a \in {NoAuth, StrAuth("tok"), StrAuth("bad"), IntAuth} }
  \cup { Call(<<4>>, StrAuth("tok"), "generate", "p", 0),
         Call(<<4>>, StrAuth("tok"), "generate", "", 0),
         Call(<<5>>, StrAuth("tok"), "load_model", "llm", 0),
         Call(<<5>>, StrAuth("tok"), "load_model", "absent", 0),
         Call(<<5>>, StrAuth("tok"), "load_model", "other", 0),
         Call(<<6>>, StrAuth("tok"), "embed", "", 1),
         Call(<<6>>, StrAuth("tok"), "embed", "", 0),
         Call(<<7>>, StrAuth("tok"), "rerank", "q", 1),
         Call(<<8>>, StrAuth("tok"), "model_status", "", 0),
         Call(<<9>>, StrAuth("tok"), "nope", "", 0) }

InitProto == InitWith({None, "tok"}, {"local"}, {"port_file"})
NextProto == NextOver(ProtoWorkers, ProtoPayloads, Headers, RecvErrors)
SpecProto == InitProto /\ [][NextProto]_vars

\* The server under each provider, on one connection
ExtPayloads ==
  { Call(<<1>>, NoAuth, "generate", "p", 0),
    Call(<<1>>, NoAuth, "generate", "", 0),
    Call(<<2>>, NoAuth, "load_model", "llm", 0),
    Call(<<2>>, NoAuth, "load_model", "absent", 0),
    Call(<<3>>, NoAuth, "unload_model", "absent", 0),
    Call(<<3>>, NoAuth, "unload_model", "embedder", 0),
    Call(<<4>>, NoAuth, "embed", "", 1),
    Call(<<5>>, NoAuth, "rerank", "q", 1),
    Call(<<6>>, NoAuth, "ping", "", 0),
    Call(<<7>>, NoAuth, "model_status", "", 0),
    Call(<<8>>, NoAuth, "nope", "", 0),
    Call(<<9>>, NoAuth, "shutdown", "", 0) }

InitExt == InitWith({None}, {"local", "anthropic", "openai"}, {"port_file"})
NextExt == NextOver(ProtoWorkers, ExtPayloads, {<<>>, <<0, 0, 0, 2>>},
                    {"ConnectionResetError"})
SpecExt == InitExt /\ [][NextExt]_vars

\* The handlers' checks of params, on one connection, with a local LLM and
\* with an external provider
MaxTokensValues ==
  {Absent, Str, Bool(TRUE), NaN, Num(0), Num(1), Num(512), Num(32768),
   Num(32769), Num(100000)}
TemperatureValues ==
  {Absent, Str, Bool(FALSE), NaN, Num(-10), Num(0), Num(7), Num(20), Num(21),
   Num(30)}

ArgPayloads ==
  { CallOpt(<<n>>, "embed", "", n, [NoOpt EXCEPT !.strings = str]) :
      n \in {-1, 0, 1, MAX_EMBED_BATCH_SIZE, MAX_EMBED_BATCH_SIZE + 1},
      str \in BOOLEAN }
  \cup { CallOpt(<<1>>, "generate", "p", 0,
                 [NoOpt EXCEPT !.max_tokens = m, !.temperature = t]) :
           m \in MaxTokensValues, t \in TemperatureValues }
  \cup { Call(<<2>>, NoAuth, "generate", "", 0) }
  \cup { Call(<<3>>, NoAuth, m, type, 0) :
           m \in {"load_model", "unload_model"},
           type \in {"absent", "embedder", "llm", "reranker"} }
  \cup { Call(<<4>>, NoAuth, "rerank", q, n) : q \in {"", "q"}, n \in {-1, 0, 1} }

InitArgs == InitWith({None}, {"local", "anthropic"}, {"port_file"})
NextArgs ==
  \/ RunStart
  \/ RunOpenPortFile
  \/ RunWritePortFile
  \/ RunStartMonitor
  \/ MainLoop
  \/ \E w \in ProtoWorkers : Accept(w)
  \/ \E w \in ProtoWorkers : WLoop(w)
  \/ \E w \in ProtoWorkers, p \in ArgPayloads : WRecv(w, <<0, 0, 0, 2>>, p)
  \/ \E w \in ProtoWorkers : WParse(w)
  \/ \E w \in ProtoWorkers : HAcquire(w)
  \/ \E w \in ProtoWorkers : HEmbed(w)
  \/ \E w \in ProtoWorkers : HRerank(w)
  \/ \E w \in ProtoWorkers : HLoadModel(w)
  \/ \E w \in ProtoWorkers : HUnloadModel(w)
  \/ \E w \in ProtoWorkers : HGenerate(w)
  \/ \E w \in ProtoWorkers : LlmLoad(w)
  \/ \E w \in ProtoWorkers : LlmLoadDone(w)
  \/ \E w \in ProtoWorkers : GenCall(w)
  \/ \E w \in ProtoWorkers : GenDone(w)
SpecArgs == InitArgs /\ [][NextArgs]_vars

\* ------------------------------------------------------------------------
\* The idle timer on one connection, with time in thirds of the monitor's
\* check interval.  time.sleep returns when its time is up and the
\* statements that follow it take no time: the clock does not advance while
\* the monitor is due or a thread is between two blocking calls.
\* ------------------------------------------------------------------------
MaxIdleTicks == 36
IdleTickSecs == idle_check_interval \div 3

TickIdle ==
  /\ alive
  /\ \A w \in Workers : pc[w] \notin {"got", "llm_built", "gen_call"}
  /\ mon_pc \notin {"test", "unload"}
  /\ mon_pc = "sleep" => now < mon_wake
  /\ now + IdleTickSecs <= StartTime + MaxIdleTicks * IdleTickSecs
  /\ now' = now + IdleTickSecs
  /\ UNCHANGED <<frameVars, sideVars, cfgVars, at_shutdown, srvVars, lock, modelVars,
                 monVars, connVars>>

\* Requests that load, use or unload a model
IdlePayloads ==
  { Call(<<1>>, NoAuth, "generate", "p", 0),
    Call(<<1>>, NoAuth, "load_model", "llm", 0),
    Call(<<1>>, NoAuth, "unload_model", "absent", 0),
    Call(<<1>>, NoAuth, "embed", "", 1),
    Call(<<1>>, NoAuth, "rerank", "q", 1) }

\* The server runs and serves one connection that stays open
IdleWorkers == {1}

NextIdle ==
  \/ TickIdle
  \/ RunStart
  \/ RunOpenPortFile
  \/ RunWritePortFile
  \/ RunStartMonitor
  \/ MainLoop
  \/ \E w \in IdleWorkers : Accept(w)
  \/ MonLoop
  \/ MonCheck
  \/ MonUnload
  \/ \E w \in IdleWorkers : WLoop(w)
  \/ \E w \in IdleWorkers, p \in IdlePayloads : WRecv(w, <<0, 0, 0, 2>>, p)
  \/ \E w \in IdleWorkers : WParse(w)
  \/ \E w \in IdleWorkers : HAcquire(w)
  \/ \E w \in IdleWorkers : HEmbed(w)
  \/ \E w \in IdleWorkers : HRerank(w)
  \/ \E w \in IdleWorkers : HLoadModel(w)
  \/ \E w \in IdleWorkers : HUnloadModel(w)
  \/ \E w \in IdleWorkers : HGenerate(w)
  \/ \E w \in IdleWorkers : LlmLoad(w)
  \/ \E w \in IdleWorkers : LlmLoadDone(w)
  \/ \E w \in IdleWorkers : GenCall(w)
  \/ \E w \in IdleWorkers : GenDone(w)
SpecIdle == Init /\ [][NextIdle]_vars

\* ------------------------------------------------------------------------
\* Several connections whose requests all go through the mutex
\* ------------------------------------------------------------------------
\* the requests that load, use or unload a model, and an embed whose texts
\* are rejected before the model is touched
LockPayloads ==
  IdlePayloads \cup { Call(<<1>>, NoAuth, "embed", "", 0) }

NextLock ==
  \/ RunStart
  \/ RunOpenPortFile
  \/ RunWritePortFile
  \/ RunStartMonitor
  \/ MainLoop
  \/ \E w \in Workers : Accept(w)
  \/ AcceptTimeout
  \/ \E w \in Workers : WLoop(w)
  \/ \E w \in Workers, p \in LockPayloads : WRecv(w, <<0, 0, 0, 2>>, p)
  \/ \E w \in Workers : WRecvError(w, "ConnectionResetError")
  \/ \E w \in Workers : WParse(w)
  \/ \E w \in Workers : HAcquire(w)
  \/ \E w \in Workers : HEmbed(w)
  \/ \E w \in Workers : HRerank(w)
  \/ \E w \in Workers : HLoadModel(w)
  \/ \E w \in Workers : HUnloadModel(w)
  \/ \E w \in Workers : HGenerate(w)
  \/ \E w \in Workers : LlmLoad(w)
  \/ \E w \in Workers : LlmLoadDone(w)
  \/ \E w \in Workers : GenCall(w)
  \/ \E w \in Workers : GenDone(w)
SpecLock == Init /\ [][NextLock]_vars

\* ------------------------------------------------------------------------
\* The frame codec at byte level: _send_message, _recv_message, _recv_exact
\* ------------------------------------------------------------------------
MaxPayloadLen == 2
MaxByte == 1
MaxSent == 2

FramePayloads ==
  UNION { [1..n -> 0..MaxByte] : n \in 0..MaxPayloadLen }

Min(a, b) == IF a < b THEN a ELSE b

\* struct.pack(">I", n)
Pack(n) ==
  << (n \div 16777216) % 256, (n \div 65536) % 256, (n \div 256) % 256, n % 256 >>

\* _send_message: header + data in one sendall
SendMessage(p) ==
  /\ ~peer_closed
  /\ Len(f_sent) < MaxSent
  /\ wire' = wire \o Pack(Len(p)) \o p
  /\ f_sent' = Append(f_sent, p)
  /\ UNCHANGED <<serverVars, peer_closed, f_pc, f_need, f_buf, f_got>>

\* The writing side closes the connection
PeerClose ==
  /\ ~peer_closed
  /\ peer_closed' = TRUE
  /\ UNCHANGED <<serverVars, wire, f_pc, f_need, f_buf, f_sent, f_got>>

RecvWant_Mutant(n, buf) == n

\* _recv_exact, line 319: the size asked of conn.recv
RecvWant(n, buf) == n - Len(buf)

\* _recv_message once _recv_exact has returned buf: the header is decoded
\* and the payload awaited (a payload of length 0 is returned at once), or
\* the payload is returned and the next call awaits a header
Returned(buf) ==
  IF f_pc = "header"
    THEN LET length == Unpack(buf) IN
         IF TooLarge(length)
           THEN /\ f_pc' = "ValueError"
                /\ UNCHANGED <<f_need, f_got>>
           ELSE IF length = 0
             THEN /\ f_got' = Append(f_got, <<>>)
                  /\ UNCHANGED <<f_pc, f_need>>
             ELSE /\ f_pc' = "payload"
                  /\ f_need' = length
                  /\ UNCHANGED f_got
    ELSE /\ f_got' = Append(f_got, buf)
         /\ f_pc' = "header"
         /\ f_need' = 4

\* _recv_exact, lines 318-323: conn.recv returns k bytes, at most as many
\* as were asked for and as have arrived
RecvChunk(k) ==
  /\ f_pc \in {"header", "payload"}
  /\ k >= 1 /\ k <= Min(RecvWant(f_need, f_buf), Len(wire))
  /\ wire' = SubSeq(wire, k + 1, Len(wire))
  /\ LET buf == f_buf \o SubSeq(wire, 1, k) IN
       IF Len(buf) < f_need
         THEN f_buf' = buf /\ UNCHANGED <<f_pc, f_need, f_got>>
         ELSE f_buf' = <<>> /\ Returned(buf)
  /\ UNCHANGED <<serverVars, peer_closed, f_sent>>

\* _recv_exact, lines 320-321: conn.recv returns b"" (the peer closed and
\* nothing is left to read), _recv_message returns None
RecvEOF ==
  /\ f_pc \in {"header", "payload"}
  /\ peer_closed /\ wire = <<>>
  /\ f_pc' = "EOF"
  /\ UNCHANGED <<serverVars, wire, peer_closed, f_need, f_buf, f_sent, f_got>>

InitFrame == InitWith({None}, {"local"}, {"port_file"})
NextFrame ==
  \/ \E p \in FramePayloads : SendMessage(p)
  \/ PeerClose
  \/ \E k \in 1..(MaxPayloadLen + 4) : RecvChunk(k)
  \/ RecvEOF
SpecFrame == InitFrame /\ [][NextFrame]_vars

\* ------------------------------------------------------------------------
\* Model handles called one operation after the other: Embedder, Reranker,
\* LlmEngine.  An operation is load, a use (embed, rerank, generate) or
\* unload; h_last names the last one completed and how it ended:
\*   "load_ok"       load returned
\*   "load_failed"   load raised (no path, download or runtime constructor)
\*   "use_ok"        the use returned
\*   "use_unloaded"  the use raised in its own load
\*   "use_raised"    the use raised in the runtime call, the model in place
\*   "unload"        unload returned
\* ------------------------------------------------------------------------
MaxOps == 4

IsLoaded_Mutant(k) == ~h_model[k]

\* is_loaded: self._model is not None
IsLoaded(k) == h_model[k]

NeedsLoad_Mutant(k) == TRUE

\* load, first statement: if self._model is not None: return
NeedsLoad(k) == ~h_model[k]

\* load(): nothing when loaded (LlmEngine refreshes _last_used), else the
\* runtime is constructed and assigned, unless something raises before
LoadInto(k, ok) ==
  IF NeedsLoad(k) /\ ok
    THEN /\ h_model' = [h_model EXCEPT ![k] = TRUE]
         /\ h_built' = [h_built EXCEPT ![k] = @ + 1]
    ELSE UNCHANGED <<h_model, h_built>>

\* The load has not raised
LoadedBy(k, ok) == ~NeedsLoad(k) \/ ok

HandleLoad(k, ok) ==
  /\ h_ops < MaxOps
  /\ LoadInto(k, ok)
  /\ h_last' = [h_last EXCEPT ![k] = IF LoadedBy(k, ok) THEN "load_ok"
                                                         ELSE "load_failed"]
  /\ h_ops' = h_ops + 1
  /\ h_call' = <<k, "load">>
  /\ UNCHANGED <<coreVars, frameVars, dlVars, apiVars, rrVars, engVars, loopVars>>

\* embed / rerank: self.load() and the runtime call; generate: load() when
\* self._model is None, then the runtime call
HandleUse(k, ok, ran) ==
  /\ h_ops < MaxOps
  /\ LoadInto(k, ok)
  /\ h_last' = [h_last EXCEPT ![k] =
                  IF ~LoadedBy(k, ok) THEN "use_unloaded"
                  ELSE IF ran THEN "use_ok" ELSE "use_raised"]
  /\ h_ops' = h_ops + 1
  /\ h_call' = <<k, "use">>
  /\ UNCHANGED <<coreVars, frameVars, dlVars, apiVars, rrVars, engVars, loopVars>>

\* unload(): self._model = None
HandleUnload(k) ==
  /\ h_ops < MaxOps
  /\ h_model' = [h_model EXCEPT ![k] = FALSE]
  /\ h_built' = [h_built EXCEPT ![k] = 0]
  /\ h_last' = [h_last EXCEPT ![k] = "unload"]
  /\ h_ops' = h_ops + 1
  /\ h_call' = <<k, "unload">>
  /\ UNCHANGED <<coreVars, frameVars, dlVars, apiVars, rrVars, engVars, loopVars>>

NextHandle ==
  \/ \E k \in Handles, ok \in BOOLEAN : HandleLoad(k, ok)
  \/ \E k \in Handles, ok \in BOOLEAN, ran \in BOOLEAN : HandleUse(k, ok, ran)
  \/ \E k \in Handles : HandleUnload(k)
SpecHandle == Init /\ [][NextHandle]_vars

\* ------------------------------------------------------------------------
\* The model file: LlmEngine.load with LlmEngine._download_model, and
\* models.download_model.  d_final is the file at dest, d_staging the file
\* at dest.with_suffix(".download"); a file is
\*   "absent"   not there
\*   "partial"  what an interrupted urlretrieve left
\*   "good"     complete, its SHA-256 is the published hash of the model
\*   "bad"      complete, its SHA-256 is anything else
\* d_via says who downloads: "server" (the LlmEngine MlServer.__init__
\* builds), "engine" (an LlmEngine built with other arguments), "models"
\* (models.download_model).  d_sha says whether an expected hash is set,
\* d_renamed whether this downloader has put the final file in place.
\* ------------------------------------------------------------------------
ModelPath == "final"
TmpDest == "staging"

\* LlmEngine.__init__, lines 44-48: self._model_sha256 is set
ModelSha256(sha_given, url_given) ==
  IF sha_given THEN TRUE ELSE ~url_given

\* server.py 61 and 67-73: model_url is never None, model_sha256 not passed;
\* models.py 47 and 75: the expected_sha256 argument
ConfiguredSha(via, sha_given, url_given) ==
  CASE via = "server" -> ModelSha256(FALSE, TRUE)
    [] via = "engine" -> ModelSha256(sha_given, url_given)
    [] via = "models" -> sha_given

Unlink_Mutant(f) == f

\* tmp_dest.unlink()
Unlink(f) == "absent"

\* The downloader is set up over a models directory that holds a model
\* file or not, and a staging file of an earlier, interrupted run or not
DlConfigure(via, sha_given, url_given, final0, staging0) ==
  /\ d_pc = "idle"
  /\ d_via' = via
  /\ d_sha' = ConfiguredSha(via, sha_given, url_given)
  /\ d_final' = final0
  /\ d_staging' = staging0
  /\ d_pc' = "ready"
  /\ UNCHANGED <<d_err, d_model, d_renamed>>
  /\ UNCHANGED <<coreVars, frameVars, handleVars, apiVars, rrVars, engVars, loopVars>>

\* LlmEngine.load, lines 59-74, on an unloaded engine; download_model,
\* lines 50-55
DlStart(has_dir) ==
  /\ d_pc = "ready"
  /\ d_via \in {"server", "engine"} => d_model = NoModel
  /\ IF d_via # "models" /\ ~has_dir
       THEN d_err' = "NoModelPath" /\ UNCHANGED d_pc
       ELSE /\ d_err' = "none"
            /\ d_pc' = IF d_final = "absent" THEN "retrieve"
                       ELSE IF d_via = "models" THEN "ready" ELSE "construct"
  /\ UNCHANGED <<d_via, d_sha, d_final, d_staging, d_model, d_renamed>>
  /\ UNCHANGED <<coreVars, frameVars, handleVars, apiVars, rrVars, engVars, loopVars>>

\* urllib.request.urlretrieve(url, str(tmp_dest)): it returns with the
\* complete body in tmp_dest, or raises URLError / OSError, or raises
\* something else (http.client.IncompleteRead); when it raises, tmp_dest is
\* as it was or holds the part received.  llm.py 194-198 removes tmp_dest
\* after URLError / OSError only; models.py has no handler.
DlRetrieve(out, left) ==
  /\ d_pc = "retrieve"
  /\ CASE out \in {"good", "bad"} ->
            /\ d_staging' = out
            /\ d_pc' = "verify"
            /\ UNCHANGED d_err
       [] out = "URLError" ->
            /\ d_staging' = IF d_via = "models" THEN left
                            ELSE IF left # "absent" THEN Unlink(left) ELSE left
            /\ d_err' = IF d_via = "models" THEN "URLError" ELSE "DownloadFailed"
            /\ d_pc' = "ready"
       [] out = "IncompleteRead" ->
            /\ d_staging' = left
            /\ d_err' = "IncompleteRead"
            /\ d_pc' = "ready"
  /\ UNCHANGED <<d_via, d_sha, d_final, d_model, d_renamed>>
  /\ UNCHANGED <<coreVars, frameVars, handleVars, apiVars, rrVars, engVars, loopVars>>

\* llm.py 175-189, models.py 75-84: the checksum, when one is expected
DlVerify ==
  /\ d_pc = "verify"
  /\ IF d_sha /\ d_staging # "good"
       THEN /\ d_staging' = Unlink(d_staging)
            /\ d_err' = "ChecksumMismatch"
            /\ d_pc' = "ready"
       ELSE /\ d_pc' = "rename"
            /\ UNCHANGED <<d_staging, d_err>>
  /\ UNCHANGED <<d_via, d_sha, d_final, d_model, d_renamed>>
  /\ UNCHANGED <<coreVars, frameVars, handleVars, apiVars, rrVars, engVars, loopVars>>

\* llm.py 191, models.py 86: tmp_dest.rename(dest), which may raise OSError
DlRename(ok) ==
  /\ d_pc = "rename"
  /\ IF ok
       THEN /\ d_final' = d_staging
            /\ d_staging' = "absent"
            /\ d_renamed' = TRUE
            /\ d_pc' = IF d_via = "models" THEN "ready" ELSE "construct"
            /\ UNCHANGED d_err
       ELSE /\ d_staging' = IF d_via = "models" THEN d_staging
                            ELSE Unlink(d_staging)
            /\ d_err' = IF d_via = "models" THEN "OSError" ELSE "DownloadFailed"
            /\ d_pc' = "ready"
            /\ UNCHANGED <<d_final, d_renamed>>
  /\ UNCHANGED <<d_via, d_sha, d_model>>
  /\ UNCHANGED <<coreVars, frameVars, handleVars, apiVars, rrVars, engVars, loopVars>>

\* llm.py 82-87: self._model = Llama(model_path=model_path, ...)
LoadRuntime(ok) ==
  /\ d_pc = "construct"
  /\ IF ok
       THEN /\ d_model' = [path |-> ModelPath, content |-> d_final]
            /\ UNCHANGED d_err
       ELSE /\ d_err' = "LoadFailed"
            /\ UNCHANGED d_model
  /\ d_pc' = "ready"
  /\ UNCHANGED <<d_via, d_sha, d_final, d_staging, d_renamed>>
  /\ UNCHANGED <<coreVars, frameVars, handleVars, apiVars, rrVars, engVars, loopVars>>

\* LlmEngine.unload
DlUnload ==
  /\ d_pc = "ready" /\ d_model # NoModel
  /\ d_model' = NoModel
  /\ UNCHANGED <<d_via, d_sha, d_pc, d_final, d_staging, d_err, d_renamed>>
  /\ UNCHANGED <<coreVars, frameVars, handleVars, apiVars, rrVars, engVars, loopVars>>

NextDownload ==
  \/ \E via \in {"server", "engine", "models"}, sha_given \in BOOLEAN,
        url_given \in BOOLEAN, final0 \in {"absent", "good"},
        staging0 \in {"absent", "partial"} :
          DlConfigure(via, sha_given, url_given, final0, staging0)
  \/ \E has_dir \in (IF d_via = "server" THEN {TRUE} ELSE BOOLEAN) :
        DlStart(has_dir)
  \/ \E out \in {"good", "bad", "URLError", "IncompleteRead"},
        left \in {d_staging, "partial"} : DlRetrieve(out, left)
  \/ DlVerify
  \/ \E ok \in BOOLEAN : DlRename(ok)
  \/ \E ok \in BOOLEAN : LoadRuntime(ok)
  \/ DlUnload
SpecDownload == Init /\ [][NextDownload]_vars

\* ------------------------------------------------------------------------
\* ExternalApiClient.generate with secrets.redact_secrets.  A text is a
\* sequence of characters.  What the patterns of SECRET_PATTERNS match in
\* a text is given as the list of the ranges found, in the order
\* detect_secrets meets them (table order); range indices are Python's.
\* The kind of a range is
\*   "named"         found by a pattern other than hex_secret / base64_secret
\*   "generic"       found by hex_secret / base64_secret and long and varied
\*                   enough to pass lines 188-195
\*   "generic_weak"  found by hex_secret / base64_secret and skipped there
\* ------------------------------------------------------------------------
MaxTextLen == 2
MaxMatches == 2
MaxCalls == 2

Chars == {"a", "b"}
Kinds == {"named", "generic", "generic_weak"}

\* redact_secrets, line 205: replacement = "[REDACTED]"
Replacement == <<"[", "R", "E", "D", "A", "C", "T", "E", "D", "]">>

Texts == UNION {[1..n -> Chars] : n \in 0..MaxTextLen}

Ranges(text) ==
  {[start |-> i, end |-> j, kind |-> k] :
     i \in 0..Len(text), j \in 0..Len(text), k \in Kinds}

\* The lists of non-empty ranges the patterns can find in a text
RawMatches(text) ==
  UNION {{ms \in [1..n -> Ranges(text)] :
            \A i \in 1..n : ms[i].start < ms[i].end} : n \in 0..MaxMatches}

\* Python's s[i:j] for 0 <= i, 0 <= j
Slice(s, i, j) == SubSeq(s, Min(i, Len(s)) + 1, Min(j, Len(s)))

SeenRanges(acc) == {<<acc[i].start, acc[i].end>> : i \in 1..Len(acc)}

RECURSIVE Detected(_, _)
\* detect_secrets, lines 171-199: the loop over the ranges found
Detected(raw, acc) ==
  IF raw = <<>> THEN acc
  ELSE LET m == Head(raw) IN
         IF <<m.start, m.end>> \in SeenRanges(acc)
           THEN Detected(Tail(raw), acc)
         ELSE IF m.kind = "generic_weak"
           THEN Detected(Tail(raw), acc)
         ELSE Detected(Tail(raw), Append(acc, m))

RECURSIVE SortByStart(_)
\* line 201: matches.sort(key=lambda m: m.start), a stable sort
SortByStart(ms) ==
  IF ms = <<>> THEN <<>>
  ELSE LET rest == SortByStart(SubSeq(ms, 1, Len(ms) - 1))
           m == ms[Len(ms)]
           k == Cardinality({i \in 1..Len(rest) : rest[i].start <= m.start})
       IN SubSeq(rest, 1, k) \o <<m>> \o SubSeq(rest, k + 1, Len(rest))

\* detect_secrets
DetectSecrets(raw) == SortByStart(Detected(raw, <<>>))

RECURSIVE ReplaceFrom(_, _, _)
\* redact_secrets, lines 218-219: for match in reversed(matches)
ReplaceFrom(res, ms, i) ==
  IF i = 0 THEN res
  ELSE ReplaceFrom(Slice(res, 0, ms[i].start) \o Replacement
                     \o Slice(res, ms[i].end, Len(res)),
                   ms, i - 1)

\* redact_secrets: (redacted_text, count_of_redactions)
RedactSecrets(text, raw) ==
  LET ms == DetectSecrets(raw) IN
    IF ms = <<>> THEN [text |-> text, n |-> 0]
    ELSE [text |-> ReplaceFrom(text, ms, Len(ms)), n |-> Len(ms)]

\* str.count: occurrences of pat in s
CountOcc(pat, s) ==
  Cardinality({i \in 1..(Len(s) - Len(pat) + 1) :
                 SubSeq(s, i, i + Len(pat) - 1) = pat})

SafePrompt_Mutant(prompt, raw) == prompt

\* generate, lines 95-99: safe_prompt
SafePrompt(prompt, raw) ==
  IF a_redact THEN RedactSecrets(prompt, raw).text ELSE prompt

\* generate, lines 96-101: redaction_count
RedactionCount(prompt, raw) ==
  IF a_redact THEN RedactSecrets(prompt, raw).n ELSE 0

\* The api_key argument of the constructor: None, empty, or a key
ApiKeys == {None, "", "key"}
\* The api_key_file argument: None, or the path of a file that is missing,
\* cannot be read, holds only white space, or holds a key
KeyFiles == {None, "missing", "unreadable", "blank", "key"}

\* _read_key_file, lines 42-50
ReadKeyFile(file) ==
  CASE file = "missing" -> None
    [] file = "unreadable" -> None
    [] file = "blank" -> ""
    [] file = "key" -> "key"

\* __init__, lines 35-40: self._api_key
ApiKey(api_key, file) ==
  IF api_key \in {None, ""} /\ file # None THEN ReadKeyFile(file)
  ELSE api_key

\* ExternalApiClient.__init__
ApiConstruct(provider, redact, api_key, file) ==
  /\ a_provider = "none"
  /\ a_provider' = provider
  /\ a_redact' = redact
  /\ a_key' = (ApiKey(api_key, file) \notin {None, ""})
  /\ a_key_src' = <<api_key, file>>
  /\ a_client' = FALSE
  /\ a_err' = "none"
  /\ a_total' = 0
  /\ UNCHANGED <<a_prompt, a_raw, a_sent, a_calls>>
  /\ UNCHANGED <<coreVars, frameVars, handleVars, dlVars, rrVars, engVars, loopVars>>

\* _ensure_client, line 56: if not self._api_key
KeyConfigured_Mutant == TRUE
KeyConfigured == a_key

\* _ensure_client, lines 62-81: the provider is anthropic or openai
ClientReady == a_key /\ a_provider \in {"anthropic", "openai"}

\* _ensure_client, lines 52-81: the error it raises, "none" when it returns;
\* installed: the provider's package can be imported
EnsureClient(installed) ==
  IF a_client THEN "none"
  ELSE IF ~KeyConfigured THEN "NotConfigured"
  ELSE IF ~ClientReady THEN "Unknown provider"
  ELSE IF ~installed THEN "NotInstalled"
  ELSE "none"

\* ExternalApiClient.generate(prompt); raw is what the patterns find in
\* the prompt.  The provider call itself returns or raises; neither
\* changes the client.
ApiGenerate(prompt, raw, installed) ==
  /\ a_provider # "none"
  /\ a_calls < MaxCalls
  /\ a_calls' = a_calls + 1
  /\ a_prompt' = prompt
  /\ a_raw' = raw
  /\ a_err' = EnsureClient(installed)
  /\ IF EnsureClient(installed) = "none"
       THEN /\ a_client' = TRUE
            /\ a_total' = a_total + RedactionCount(prompt, raw)
            /\ a_sent' = SafePrompt(prompt, raw)
       ELSE /\ a_sent' = NoPrompt
            /\ UNCHANGED <<a_total, a_client>>
  /\ UNCHANGED <<a_provider, a_redact, a_key, a_key_src>>
  /\ UNCHANGED <<coreVars, frameVars, handleVars, dlVars, rrVars, engVars, loopVars>>

\* Clients built with or without an api_key, the providers' packages
\* installed, every prompt and every list of matches
NextApi ==
  \/ \E provider \in {"anthropic", "openai", "other"}, redact \in BOOLEAN,
        api_key \in {None, "key"} :
        ApiConstruct(provider, redact, api_key, None)
  \/ \E prompt \in Texts : \E raw \in RawMatches(prompt) :
        ApiGenerate(prompt, raw, TRUE)
SpecApi == Init /\ [][NextApi]_vars

\* Clients built from every api_key and api_key_file, the providers'
\* packages installed or not; prompts with at most one match
SingleMatches(text) ==
  {<<>>} \cup {<<r>> : r \in {q \in Ranges(text) : q.start < q.end}}

NextApiKey ==
  \/ \E provider \in {"anthropic", "openai", "other"}, redact \in BOOLEAN,
        api_key \in ApiKeys, file \in KeyFiles :
        ApiConstruct(provider, redact, api_key, file)
  \/ \E prompt \in Texts : \E raw \in SingleMatches(prompt) :
        \E installed \in BOOLEAN : ApiGenerate(prompt, raw, installed)
SpecApiKey == Init /\ [][NextApiKey]_vars

\* ------------------------------------------------------------------------
\* Reranker.rerank behind MlServer._handle_rerank, one request at a time
\* ------------------------------------------------------------------------
MaxDocs == 3
MaxScore == 2
LongDocs == 11
\* _handle_rerank, line 241: params.get("top_k", 10)
default_top_k == 10

\* the scores the runtime can yield for the documents of a request
ScoreLists ==
  UNION {[1..n -> 0..MaxScore] : n \in 0..MaxDocs}
    \cup {[i \in 1..LongDocs |-> i % (MaxScore + 1)]}
TopKValues == {Absent, Str} \cup {Num(k) : k \in -1..(MaxDocs + 1)}

\* [(i, float(s)) for i, s in enumerate(scores)]
Enumerate(scores) == [i \in 1..Len(scores) |-> <<i - 1, scores[i]>>]

\* list.sort(key=lambda x: x[1], reverse=True) is stable: of two entries
\* with the same score the one that came first stays first
KeepsAhead(a, x) == a[2] >= x[2]

RECURSIVE InsertDesc(_, _)
InsertDesc(x, s) ==
  IF s = <<>> THEN <<x>>
  ELSE IF KeepsAhead(Head(s), x) THEN <<Head(s)>> \o InsertDesc(x, Tail(s))
  ELSE <<x>> \o s

RECURSIVE SortDesc(_)
SortDesc(s) ==
  IF s = <<>> THEN <<>>
  ELSE InsertDesc(s[Len(s)], SortDesc(SubSeq(s, 1, Len(s) - 1)))

\* indexed[:top_k]: a negative top_k counts from the end of the list
SliceTo(s, k) ==
  IF k >= 0 THEN SubSeq(s, 1, Min(k, Len(s)))
  ELSE SubSeq(s, 1, IF Len(s) + k > 0 THEN Len(s) + k ELSE 0)

\* Reranker.rerank, lines 41-45
Rerank(scores, top_k) == SliceTo(SortDesc(Enumerate(scores)), top_k)

\* a client sends a rerank request
RrRequest(query, scores, top_k) ==
  /\ r_pc \in {"idle", "done"}
  /\ r_pc' = "called"
  /\ r_query' = query
  /\ r_scores' = scores
  /\ r_top_k' = top_k
  /\ r_out' = <<>>
  /\ r_err' = "none"
  /\ UNCHANGED <<coreVars, frameVars, handleVars, dlVars, apiVars, engVars, loopVars>>

\* _handle_rerank, lines 239-249, with Reranker.rerank; a top_k that is not
\* an integer makes the slice raise TypeError
RrRerank ==
  /\ r_pc = "called"
  /\ r_pc' = "done"
  /\ LET top_k == IF r_top_k = Absent THEN Num(default_top_k) ELSE r_top_k
     IN IF r_query = ""
          THEN r_err' = "No query provided" /\ r_out' = <<>>
        ELSE IF r_scores = <<>>
          THEN r_err' = "No documents provided" /\ r_out' = <<>>
        ELSE IF top_k.type # "number"
          THEN r_err' = "TypeError" /\ r_out' = <<>>
        ELSE r_err' = "none" /\ r_out' = Rerank(r_scores, top_k.val)
  /\ UNCHANGED <<r_query, r_scores, r_top_k>>
  /\ UNCHANGED <<coreVars, frameVars, handleVars, dlVars, apiVars, engVars, loopVars>>

NextRerank ==
  \/ \E query \in {"", "q"}, scores \in ScoreLists, top_k \in TopKValues :
        RrRequest(query, scores, top_k)
  \/ RrRerank
SpecRerank == Init /\ [][NextRerank]_vars

\* ------------------------------------------------------------------------
\* LlmEngine called directly: load, generate, unload, one call at a time
\* ------------------------------------------------------------------------
MaxEngineOps == 4
MaxEngineTicks == 2

\* load, lines 64-66: os.path.join(self._models_dir, self._model_filename)
DefaultPath == "default"
\* the path argument of load: None, or a path of the caller's
LoadPaths == {None, "other"}

\* load, line 58: if self._model is not None
EngineLoaded_Mutant == FALSE
EngineLoaded == e_model # None

\* load, lines 62-66 (the engine has a models directory)
ResolvePath(path) == IF path = None THEN DefaultPath ELSE path

\* LlmEngine.load(path), lines 58-90, seen from the caller.  fetched: the
\* download succeeds when one is made; built: the runtime constructor
\* returns.  The result says whether load returns and gives the engine's
\* fields after it.
Load(path, fetched, built) ==
  LET p == ResolvePath(path)
      missing == p \notin e_files
      loads == (~missing \/ fetched) /\ built
  IN IF EngineLoaded
       THEN [ok |-> TRUE, model |-> e_model, model_path |-> e_model_path,
             nbuilt |-> e_built, last_used |-> e_now, files |-> e_files,
             downloads |-> e_downloads]
     ELSE [ok |-> loads,
           model |-> IF loads THEN p ELSE e_model,
           model_path |-> IF loads THEN p ELSE e_model_path,
           nbuilt |-> IF loads THEN e_built + 1 ELSE e_built,
           last_used |-> IF loads THEN e_now ELSE e_last_used,
           files |-> IF missing /\ fetched THEN e_files \cup {p} ELSE e_files,
           downloads |-> IF missing THEN e_downloads + 1 ELSE e_downloads]

EngineAfter(r) ==
  /\ e_model' = r.model
  /\ e_model_path' = r.model_path
  /\ e_built' = r.nbuilt
  /\ e_files' = r.files
  /\ e_downloads' = r.downloads

EngineLoad(path, fetched, built) ==
  /\ e_ops < MaxEngineOps
  /\ e_ops' = e_ops + 1
  /\ LET r == Load(path, fetched, built) IN
       /\ EngineAfter(r)
       /\ e_last_used' = r.last_used
       /\ e_op' = [name |-> "load", path |-> path, ok |-> r.ok]
  /\ UNCHANGED e_now
  /\ UNCHANGED <<coreVars, frameVars, handleVars, dlVars, apiVars, rrVars, loopVars>>

\* LlmEngine.generate, lines 100-115: load() when there is no model, then
\* _last_used = time.time() (line 103), then the runtime call, which
\* returns (ran) or raises
EngineGenerate(fetched, built, ran) ==
  /\ e_ops < MaxEngineOps
  /\ e_ops' = e_ops + 1
  /\ LET r == Load(None, fetched, built) IN
       /\ EngineAfter(r)
       /\ e_last_used' = IF r.ok THEN e_now ELSE r.last_used
       /\ e_op' = [name |-> "generate", path |-> None, ok |-> r.ok /\ ran]
  /\ UNCHANGED e_now
  /\ UNCHANGED <<coreVars, frameVars, handleVars, dlVars, apiVars, rrVars, loopVars>>

\* LlmEngine.unload, lines 117-120
EngineUnload ==
  /\ e_ops < MaxEngineOps
  /\ e_ops' = e_ops + 1
  /\ e_model' = None
  /\ e_model_path' = None
  /\ e_op' = [name |-> "unload", path |-> None, ok |-> TRUE]
  /\ UNCHANGED <<e_built, e_last_used, e_now, e_files, e_downloads>>
  /\ UNCHANGED <<coreVars, frameVars, handleVars, dlVars, apiVars, rrVars, loopVars>>

\* time passes between two calls
EngineTick ==
  /\ e_now < StartTime + MaxEngineTicks
  /\ e_now' = e_now + 1
  /\ UNCHANGED <<e_model, e_model_path, e_built, e_last_used, e_files,
                 e_downloads, e_op, e_ops>>
  /\ UNCHANGED <<coreVars, frameVars, handleVars, dlVars, apiVars, rrVars, loopVars>>

NextEngine ==
  \/ \E path \in LoadPaths, fetched \in BOOLEAN, built \in BOOLEAN :
        EngineLoad(path, fetched, built)
  \/ \E fetched \in BOOLEAN, built \in BOOLEAN, ran \in BOOLEAN :
        EngineGenerate(fetched, built, ran)
  \/ EngineUnload
  \/ EngineTick
SpecEngine == Init /\ [][NextEngine]_vars

\* ------------------------------------------------------------------------
\* _handle_connection when the client writes frames ahead of the replies
\* ------------------------------------------------------------------------
MaxConnFrames == 2

\* what a frame holds: a call that is dispatched, a shutdown call, bytes
\* that are not JSON, JSON that is not an object
FrameKinds == {"call", "shutdown", "bad_json", "not_object"}

\* the client writes its next frame, whether or not the earlier ones have
\* been answered
ClientSend(c, kind) ==
  /\ k_written[c] < MaxConnFrames
  /\ k_written' = [k_written EXCEPT ![c] = @ + 1]
  /\ k_inbox' = [k_inbox EXCEPT ![c] =
                   Append(@, [seq |-> k_written[c] + 1, kind |-> kind])]
  /\ UNCHANGED <<k_running, k_pc, k_cur, k_read, k_replied, k_after>>
  /\ UNCHANGED <<coreVars, frameVars, handleVars, dlVars, apiVars, rrVars, engVars>>

KeepServing_Mutant == TRUE
\* line 141: while self._running
KeepServing == k_running

\* line 141, the loop test; the finally clause closes the connection
ConnLoop(c) ==
  /\ k_pc[c] = "loop"
  /\ k_pc' = [k_pc EXCEPT ![c] = IF KeepServing THEN "recv" ELSE "closed"]
  /\ UNCHANGED <<k_running, k_inbox, k_written, k_cur, k_read, k_replied,
                 k_after>>
  /\ UNCHANGED <<coreVars, frameVars, handleVars, dlVars, apiVars, rrVars, engVars>>

AtRecv_Mutant(c) == k_pc[c] \in {"recv", "reply"}
\* line 142: the worker is in self._recv_message(conn)
AtRecv(c) == k_pc[c] = "recv"

\* line 142: _recv_message returns the earliest frame not yet read
ConnRecv(c) ==
  /\ AtRecv(c)
  /\ k_inbox[c] # <<>>
  /\ k_cur' = [k_cur EXCEPT ![c] = Head(k_inbox[c])]
  /\ k_inbox' = [k_inbox EXCEPT ![c] = Tail(@)]
  /\ k_read' = [k_read EXCEPT ![c] = Append(@, Head(k_inbox[c]).seq)]
  /\ k_after' = [k_after EXCEPT ![c] = IF k_running THEN @ ELSE @ + 1]
  /\ k_pc' = [k_pc EXCEPT ![c] = "got"]
  /\ UNCHANGED <<k_running, k_written, k_replied>>
  /\ UNCHANGED <<coreVars, frameVars, handleVars, dlVars, apiVars, rrVars, engVars>>

\* lines 142-144, 168-171: nothing arrives: the client closed
\* (_recv_message returns None: break), the 30 s timeout of line 139 or a
\* reset raises; in each case conn.close()
ConnRecvNone(c) ==
  /\ k_pc[c] = "recv"
  /\ k_inbox[c] = <<>>
  /\ k_pc' = [k_pc EXCEPT ![c] = "closed"]
  /\ UNCHANGED <<k_running, k_inbox, k_written, k_cur, k_read, k_replied,
                 k_after>>
  /\ UNCHANGED <<coreVars, frameVars, handleVars, dlVars, apiVars, rrVars, engVars>>

\* lines 146-165: json.loads, request.get, self._dispatch.  A frame that
\* is not an object raises AttributeError at line 152, which nothing
\* catches; _handle_shutdown sets _running to False.
ConnDispatch(c) ==
  /\ k_pc[c] = "got"
  /\ k_pc' = [k_pc EXCEPT ![c] =
                IF k_cur[c].kind = "not_object" THEN "closed" ELSE "reply"]
  /\ k_running' = (k_running /\ k_cur[c].kind # "shutdown")
  /\ UNCHANGED <<k_inbox, k_written, k_cur, k_read, k_replied, k_after>>
  /\ UNCHANGED <<coreVars, frameVars, handleVars, dlVars, apiVars, rrVars, engVars>>

\* lines 149-150, 158-159, 164-167: _send_result or _send_error, then the
\* next iteration; sendall raising ends the worker
ConnReply(c, ok) ==
  /\ k_pc[c] = "reply"
  /\ k_pc' = [k_pc EXCEPT ![c] = IF ok THEN "loop" ELSE "closed"]
  /\ k_replied' = [k_replied EXCEPT ![c] =
                     IF ok THEN Append(@, k_cur[c].seq) ELSE @]
  /\ k_cur' = [k_cur EXCEPT ![c] = NoFrame]
  /\ UNCHANGED <<k_running, k_inbox, k_written, k_read, k_after>>
  /\ UNCHANGED <<coreVars, frameVars, handleVars, dlVars, apiVars, rrVars, engVars>>

\* lines 292-294 through another client, or the signal handler of
\* __main__: _running becomes False
ConnStop ==
  /\ k_running
  /\ k_running' = FALSE
  /\ UNCHANGED <<k_pc, k_inbox, k_written, k_cur, k_read, k_replied, k_after>>
  /\ UNCHANGED <<coreVars, frameVars, handleVars, dlVars, apiVars, rrVars, engVars>>

\* a step of the worker of connection c
ConnStep(c) ==
  \/ ConnLoop(c)
  \/ ConnRecv(c)
  \/ ConnRecvNone(c)
  \/ ConnDispatch(c)
  \/ \E ok \in BOOLEAN : ConnReply(c, ok)

NextConn ==
  \/ \E c \in Conns, kind \in FrameKinds : ClientSend(c, kind)
  \/ \E c \in Conns : ConnLoop(c)
  \/ \E c \in Conns : ConnRecv(c)
  \/ \E c \in Conns : ConnRecvNone(c)
  \/ \E c \in Conns : ConnDispatch(c)
  \/ \E c \in Conns, ok \in BOOLEAN : ConnReply(c, ok)
  \/ ConnStop
SpecConn == Init /\ [][NextConn]_vars

\* every worker thread keeps running until its connection is closed
SpecConnFair == SpecConn /\ \A c \in Conns : WF_vars(ConnStep(c))

\* ------------------------------------------------------------------------
\* Properties
\* ------------------------------------------------------------------------
\* A worker is inside the body of a handler that runs under self._lock
InHandler(w) ==
  pc[w] \in {"locked", "llm_load", "llm_built", "gen_call", "gen_infer"}

\* C1: at most one of the handlers embed, generate, rerank, load_model and
\* unload_model is executing at any time, and whoever is executing one is
\* the holder of the server's mutex, from before its params are validated
\* until it has returned or raised.
C1_HandlersMutuallyExclusive ==
  /\ Cardinality({w \in Workers : InHandler(w)}) <= 1
  /\ \A w \in Workers : InHandler(w) => lock = w

\* C1 witness: one worker is inside generate while another has a request
\* for a handler of this group and waits for the mutex
C1_Witness ==
  \E w, v \in Workers :
    /\ w # v
    /\ pc[w] = "gen_infer"
    /\ pc[v] = "dispatch" /\ cur[v].method \in LockMethods

\* A generate or load_model handler on the LLM holds the mutex
LlmHandlerActive ==
  \E w \in Workers :
    /\ lock = w
    /\ \/ cur[w].method = "generate"
       \/ cur[w].method = "load_model" /\ cur[w].arg = "llm"

\* C2: the idle monitor's unload() never takes effect while a generate or
\* load_model handler on the LLM is between acquiring and releasing the
\* mutex.
C2_MonitorUnloadOutsideHandlers ==
  [][(mon_pc = "unload" /\ mon_pc' # "unload") => ~LlmHandlerActive]_vars

\* The connection is closed by the failure of a send, which no reply survives
SendFailed(w) == pc'[w] = "closed" /\ closedBy'[w] = "BrokenPipeError"

\* The worker answers the frame it has parsed with one reply of this code
\* and goes on with the connection
AnsweredWith(w, code) ==
  /\ pc'[w] = "loop"
  /\ sent'[w] = sent[w] + 1
  /\ reply'[w].code = code

\* C3: with an auth_token configured, every request whose _auth is absent
\* or is not exactly the token is answered with -32600 and its handler is
\* not run, whatever the method, id or _auth value.
C3_BadAuthAnswered ==
  [][\A w \in Workers :
       ( /\ pc[w] = "got" /\ pc'[w] # "got"
         /\ AuthEnabled
         /\ data[w].kind = "object"
         /\ data[w].auth # StrAuth(auth_token) )
       => (AnsweredWith(w, INVALID_REQUEST) \/ SendFailed(w))]_vars

\* C4: a worker closes its connection only on EOF, an oversize frame or a
\* socket I/O error (or because the server stopped running); every other
\* frame is answered and the connection goes on.  The closes that C3 and
\* C6 are about (TypeError in the auth check, UnicodeDecodeError in the
\* parse) are left aside here.
C4_ClosesOnlyOnIO ==
  \A w \in Workers :
    closedBy[w] \in {None, "EOF", "ValueError", "ConnectionResetError",
                     "timeout", "BrokenPipeError", "stopped",
                     "TypeError", "UnicodeDecodeError"}

\* C5: every reply to a request that carries an id, be it a result, an
\* auth failure or a handler error, carries that id unchanged.
C5_ReplyEchoesId ==
  [][\A w \in Workers :
       (sent'[w] > sent[w] /\ data[w].kind = "object" /\ data[w].id # <<>>)
       => reply'[w].id = data[w].id[1]]_vars

\* C5 witness: a handler error was answered with the request's id
C5_Witness ==
  \E w \in Workers : sent[w] = 1 /\ reply[w] = [id |-> 4, code |-> INTERNAL_ERROR]

\* C6: a frame whose payload is not valid JSON is answered with one reply
\* of code -32700, no handler runs, and the connection goes on.
C6_InvalidJsonAnswered ==
  [][\A w \in Workers :
       ( /\ pc[w] = "got" /\ pc'[w] # "got"
         /\ data[w].kind \in {"malformed", "badutf8"} )
       => (AnsweredWith(w, PARSE_ERROR) \/ SendFailed(w))]_vars

\* C7: a header declaring more than 10 MiB closes the connection with no
\* reply and nothing dispatched; a header declaring 10 MiB or less never
\* has that effect, and its frame, once complete, is handed on for parsing.
C7_OversizeClosesSilently ==
  \A w \in Workers :
    Len(hdr[w]) = 4 =>
      IF Unpack(hdr[w]) > 10 * 1024 * 1024
        THEN /\ pc[w] = "closed" /\ closedBy[w] = "ValueError"
             /\ sent[w] = 0 /\ reply[w] = NoReply
             /\ data[w] = NoData /\ cur[w] = NoCall
        ELSE /\ closedBy[w] # "ValueError"
             /\ closedBy[w] = "EOF" => data[w] = NoData

\* C7 witness: a connection that had served a request was closed by a
\* header declaring 10 MiB + 1
C7_Witness ==
  \E w \in Workers :
    /\ hdr[w] = <<0, 160, 0, 1>>
    /\ pc[w] = "closed"
    /\ emb_model

\* A sequence is an initial part of another
IsPrefix(s, t) == Len(s) <= Len(t) /\ s = SubSeq(t, 1, Len(s))

\* C8: what _recv_message returns are the payloads given to _send_message,
\* byte for byte and in order, however recv splits the stream; once
\* everything written has been read, every payload has been returned.
C8_FrameRoundTrip ==
  /\ IsPrefix(f_got, f_sent)
  /\ f_pc # "ValueError"
  /\ (wire = <<>> /\ f_buf = <<>> /\ f_pc = "header") => f_got = f_sent
  /\ f_pc = "EOF" => f_got = f_sent

\* C8 witness: two different payloads, the first as long as a header's
\* tail allows confusion, were received in order over an emptied stream
C8_Witness ==
  /\ f_got = << <<0, 1>>, <<1>> >>
  /\ wire = <<>>
  /\ f_pc = "header"

\* C9: once shutdown has been triggered and the process is gone, the
\* listen socket is closed, the port_file is removed and the embedder and
\* the local LLM are unloaded.
C9_ShutdownCleansUp ==
  main_pc = "exited" =>
    /\ sock # "listening"
    /\ ~port_file_exists
    /\ ~emb_model
    /\ ~llm_model

\* C10: a generate handler that was executing when shutdown was triggered
\* is not cut short: the process does not exit while it is still inside
\* the handler.
C10_InFlightGenerateCompletes ==
  ~alive => \A w \in at_shutdown : ~GenExecuting(w)

\* C11: after the local LLM has been unloaded, the next generate reloads it
\* and succeeds in every interleaving with the idle monitor: a generate that
\* found the LLM unloaded and has constructed the runtime again (load, line
\* 82) still has it in place when load returns, so that the call at line
\* 105 finds a model.  Shutdown, which unloads too, is left aside.
C11_ReloadedModelStays ==
  \A w \in Workers :
    (running /\ pc[w] = "llm_built" /\ cur[w].method = "generate")
      => llm_model

\* The LLM handle has been loaded and left alone for secs seconds or more by
\* a server that runs: no handler is inside load or generate
IdleFor(secs) ==
  /\ alive /\ running /\ HasLlm
  /\ llm_last_used # 0
  /\ \A w \in Workers : ~InHandler(w)
  /\ now - llm_last_used >= secs

\* The idle monitor's unload() takes effect in this step
MonitorUnloads == mon_pc = "unload" /\ mon_pc' # "unload"

\* C12 as stated: 310 seconds without load or generate are enough for the
\* LLM to be unloaded.
C12_UnloadedAfter310 == IdleFor(310) => ~llm_model

\* C12, amended: once the LLM has gone without load or generate for more
\* than 330 seconds (the 300 s threshold and one 30 s check interval) it is
\* unloaded, and the monitor's unload leaves the embedder and the reranker
\* as they were.
C12_UnloadedAfter330 ==
  /\ []((IdleFor(330) /\ now - llm_last_used # 330) => ~llm_model)
  /\ [][MonitorUnloads => UNCHANGED <<emb_model, rr_model>>]_vars

\* C12 witness: the monitor has just unloaded an LLM that was idle for 330
\* seconds, and the embedder and the reranker are still loaded
C12_Witness ==
  /\ running /\ ~llm_model /\ emb_model /\ rr_model
  /\ llm_last_used # 0 /\ now - llm_last_used = 330
  /\ mon_pc = "test" /\ mon_wake = now

\* C13 as stated: is_loaded is true exactly when the last completed
\* operation was a successful load or use.
C13_LoadedIffLastSucceeded ==
  \A k \in Handles : IsLoaded(k) <=> h_last[k] \in {"load_ok", "use_ok"}

\* C13, amended: is_loaded is true exactly when the last completed
\* operation was a successful load, a successful use, or a use that raised
\* in the runtime call with the model in place; it is false initially,
\* after unload and after a load, explicit or made by a use, that failed.
C13_LoadedIffLastLoadHeld ==
  \A k \in Handles :
    /\ IsLoaded(k) <=> h_last[k] \in {"load_ok", "use_ok", "use_raised"}
    /\ h_last[k] \in {"none", "unload", "load_failed", "use_unloaded"}
         => ~IsLoaded(k)

\* C13 witness: after four operations one handle was loaded and unloaded,
\* one failed to load and one was used successfully
C13_Witness ==
  /\ h_ops = MaxOps
  /\ h_last["embedder"] = "unload" /\ ~h_model["embedder"]
  /\ h_last["reranker"] = "load_failed" /\ ~h_model["reranker"]
  /\ h_last["llm"] = "use_ok" /\ h_model["llm"]

\* C14: between two unloads the runtime of a handle is constructed at most
\* once, and a load on a handle that is loaded changes neither a loaded
\* flag nor the runtime: two loads in a row leave what one leaves.
C14_LoadIdempotent ==
  /\ [](\A k \in Handles : h_built[k] <= 1)
  /\ [][\A k \in Handles :
         (h_model[k] /\ h_ops' = h_ops + 1 /\ h_call' = <<k, "load">>)
         => (h_model' = h_model /\ h_built' = h_built
             /\ h_last'[k] = "load_ok")]_vars

\* C14 witness: a handle was loaded twice in a row, with one construction
C14_Witness ==
  /\ h_ops = 2 /\ h_call = <<"llm", "load">>
  /\ h_last["llm"] = "load_ok" /\ h_built["llm"] = 1 /\ h_model["llm"]
  /\ h_last["embedder"] = "none" /\ h_last["reranker"] = "none"

\* C15: in every reachable state exactly one of the local LLM engine and the
\* external API client exists, the LLM engine iff the provider is "local",
\* and no step of any thread (request, idle monitor, shutdown) creates or
\* removes either.
C15_ExactlyOneBackend ==
  /\ [](/\ HasLlm # UseApiClient
        /\ HasLlm <=> (api_provider = "local"))
  /\ [][UNCHANGED <<llm, api_client>>]_vars

\* An external provider, after a generate was served, the monitor has run
\* and the server was shut down
C15_Witness ==
  /\ api_provider = "anthropic" /\ UseApiClient /\ ~HasLlm
  /\ main_pc = "sys_exit" /\ mon_pc # "off"
  /\ \E w \in ProtoWorkers : result[w].backend = "api"

InLlm(w) == pc[w] \in {"llm_load", "llm_built", "gen_call", "gen_infer"}

LoadLlmReturns(w) ==
  /\ pc[w] = "locked" /\ cur[w].method = "load_model" /\ cur[w].arg = "llm"
  /\ pc'[w] # "locked"

\* C16: under an external provider the local LLM is never used: no thread
\* is ever inside the LLM engine and every generate that is served is
\* served by the API client; load_model with type "llm" ends at once with
\* the error "Local LLM not available" and changes no model handle; and the
\* llm_loaded flag of every model_status result is false.
C16_ExternalNeverUsesLlm ==
  /\ []((api_provider # "local") =>
          /\ ~llm_model
          /\ \A w \in Workers :
                /\ ~InLlm(w)
                /\ result[w].backend \in {"none", "api"}
                /\ result[w].status # <<>> => ~result[w].status[2])
  /\ [][\A w \in Workers :
          (api_provider # "local" /\ LoadLlmReturns(w)) =>
            /\ UNCHANGED modelVars
            /\ pc'[w] \in {"loop", "closed"}
            /\ pc'[w] = "loop" =>
                  /\ sent'[w] = sent[w] + 1
                  /\ reply'[w].code = INTERNAL_ERROR
                  /\ result'[w].error =
                       "Local LLM not available - using external API"]_vars

\* With provider openai, load_model llm was just answered with the error
\* while the embedder is loaded
C16_Witness ==
  /\ api_provider = "openai" /\ emb_model /\ ~llm_model
  /\ \E w \in ProtoWorkers :
        /\ pc[w] = "loop" /\ sent[w] = 1 /\ reply[w].code = INTERNAL_ERROR
        /\ result[w].error = "Local LLM not available - using external API"

DownloadSucceeds ==
  d_pc = "rename" /\ d_pc' # "rename" /\ d_err' = "none"

C18_ServerDownloadVerified ==
  d_via = "server" =>
    /\ d_final # "bad"
    /\ d_model.content # "bad"

\* A generate call of the API client has handed a prompt to the provider
Handed == a_sent # NoPrompt

\* C19: with redact_secrets enabled the prompt handed to the provider is
\* the output of redact_secrets applied to the caller's prompt (and differs
\* from the original whenever something was redacted), and total_redactions
\* grows by exactly the count redact_secrets returned; the counter never
\* decreases and stays as it is when nothing was redacted or redaction is
\* disabled.
C19_RedactedPromptHanded ==
  /\ []((Handed /\ a_redact) =>
          /\ a_sent = RedactSecrets(a_prompt, a_raw).text
          /\ RedactSecrets(a_prompt, a_raw).n > 0 => a_sent # a_prompt)
  /\ [][a_calls' = a_calls + 1 =>
          /\ a_total' >= a_total
          /\ (Handed' /\ a_redact) =>
                a_total' = a_total + RedactSecrets(a_prompt', a_raw').n
          /\ (~a_redact \/ RedactSecrets(a_prompt', a_raw').n = 0) =>
                a_total' = a_total
          /\ (Handed' /\ ~a_redact) => a_sent' = a_prompt']_vars

\* The second call of a redacting Anthropic client handed over a prompt
\* with one secret masked; the first call had masked one as well
C19_Witness ==
  /\ a_provider = "anthropic" /\ a_redact /\ a_calls = 2 /\ a_total = 2
  /\ a_prompt = <<"a", "b">>
  /\ a_raw = <<[start |-> 0, end |-> 1, kind |-> "named"]>>
  /\ a_sent = Replacement \o <<"b">>

\* C20: for every text without a literal "[REDACTED]" and every list of
\* ranges the patterns find in it, redact_secrets returns a count equal to
\* the number of matches detect_secrets keeps and a text in which
\* "[REDACTED]" occurs exactly that many times.
C20_CountEqualsOccurrences ==
  (Handed /\ a_redact /\ CountOcc(Replacement, a_prompt) = 0) =>
    LET r == RedactSecrets(a_prompt, a_raw) IN
      /\ r.n = Len(DetectSecrets(a_raw))
      /\ a_sent = r.text
      /\ CountOcc(Replacement, r.text) = r.n

\* A worker is about to run the handler of ping, model_status or shutdown
AtFreeHandler(w) ==
  alive /\ pc[w] = "dispatch" /\ cur[w].method \in FreeMethods

\* C21: ping, model_status and shutdown never acquire the mutex: whoever
\* holds it, a worker that has one of them to run can run it at once, and
\* running it neither takes nor releases the mutex and ends with the reply
\* (or with the connection closed when the client is gone).
C21_FreeHandlersNeverWait ==
  /\ [](\A w \in Workers :
          AtFreeHandler(w) =>
            ENABLED (HPing(w) \/ HStatusRead(w) \/ HModelStatus(w)
                       \/ HShutdown(w)))
  /\ [][\A w \in Workers :
          (AtFreeHandler(w) /\ (pc'[w] # pc[w] \/ locals'[w] # locals[w])) =>
            /\ lock' = lock
            /\ pc'[w] \in {"dispatch", "loop", "closed"}
            /\ pc'[w] = "loop" =>
                  (sent'[w] = sent[w] + 1 /\ reply'[w].code = RESULT)]_vars

\* Worker 2 was answered a shutdown request that it ran while worker 1 was
\* in the inference of a generate, where worker 1 still is, holding the mutex
C21_Witness ==
  /\ lock = 1 /\ pc[1] = "gen_infer" /\ at_shutdown = {1}
  /\ ~running /\ main_pc \in {"loop", "accept"}
  /\ pc[2] = "loop" /\ sent[2] = 1 /\ reply[2].code = RESULT

\* The handler of a request of the given method returns or raises
Returns(w, method) ==
  pc[w] = "locked" /\ cur[w].method = method /\ pc'[w] # "locked"

\* The worker has sent an error reply that carries one of the messages
ErrorReply(w, messages) ==
  pc'[w] = "loop" =>
    /\ sent'[w] = sent[w] + 1
    /\ reply'[w].code = INTERNAL_ERROR
    /\ result'[w].error \in messages

\* C22: embed is accepted (the embedder is called) when texts has 1 to 64
\* elements, and rejected with an error reply when texts is absent, empty
\* or has 65 or more elements; a rejected embed neither calls nor loads the
\* embedder.
C22_EmbedBatchBounds ==
  [][\A w \in Workers :
       Returns(w, "embed") =>
         LET n == cur[w].n IN
           /\ n \in 1..64 => locals'[w].called = "embedder"
           /\ (n \in {-1, 0} \/ n >= 65) =>
                 /\ locals'[w].called = "none"
                 /\ emb_model' = emb_model
                 /\ ErrorReply(w, {"No texts provided",
                                   "Batch size exceeds maximum"})]_vars

\* An embed of 64 texts was accepted and answered with its result
C22_Witness ==
  /\ pc[1] = "loop" /\ sent[1] = 1 /\ reply[1].code = RESULT
  /\ reply[1].id = MAX_EMBED_BATCH_SIZE
  /\ locals[1].called = "embedder" /\ emb_model

\* C23: embed is rejected with an error reply, before the embedder is
\* called or loaded, whenever an element of texts is not a string.
C23_NonStringTextsRejected ==
  [][\A w \in Workers :
       (Returns(w, "embed") /\ ~cur[w].opt.strings) =>
         /\ locals'[w].called = "none"
         /\ emb_model' = emb_model
         /\ pc'[w] = "loop" => reply'[w].code = INTERNAL_ERROR]_vars

\* The value the backend is to get for max_tokens / temperature: the
\* request's when it is a number in the range, the default otherwise
InRangeOr(v, lo, hi, default) ==
  IF v.type = "number" /\ v.val >= lo /\ v.val <= hi THEN v ELSE Num(default)

\* C24: the max_tokens and temperature handed to the generation backend are
\* the request's values when they are numbers within [1, 32768] and
\* [0.0, 2.0], and 1024 and 0.1 in every other case; no generate with a
\* prompt is turned away before the backend on their account.
C24_GenerateParamsCoerced ==
  [][\A w \in Workers :
       (pc[w] = "locked" /\ cur[w].method = "generate" /\ cur[w].arg # ""
          /\ pc'[w] # pc[w]) =>
         /\ locals'[w].called \in {"llm", "api"}
         /\ locals'[w].args =
              <<InRangeOr(cur[w].opt.max_tokens, 1, 32768, 1024),
                InRangeOr(cur[w].opt.temperature, 0, 20, 1)>>]_vars

\* C26: load_model and unload_model with a type other than embedder or llm
\* fail with the error "Unknown model type" and change no handle's loaded
\* state.
C26_UnknownTypeRejected ==
  [][\A w \in Workers :
       ((Returns(w, "load_model") \/ Returns(w, "unload_model"))
          /\ cur[w].arg \notin {"absent", "embedder", "llm"}) =>
         /\ UNCHANGED <<emb_model, rr_model, llm_model>>
         /\ locals'[w].called = "none"
         /\ pc'[w] = "loop" =>
               (reply'[w].code = INTERNAL_ERROR
                  /\ result'[w].error = "Unknown model type")]_vars

\* C30: a generate served by the external API client whose request has no
\* max_tokens reaches the provider with the client's constructor value
\* (api_max_tokens) as max_tokens.
C30_ApiDefaultMaxTokens ==
  [][\A w \in Workers :
       (Returns(w, "generate") /\ cur[w].opt.max_tokens = Absent
          /\ locals'[w].called = "api") =>
         locals'[w].tokens = Num(api_max_tokens)]_vars

\* One result entry comes before another in the order of the results: its
\* score is higher, or the scores are equal and its index is lower
Before(a, b) == a[2] > b[2] \/ (a[2] = b[2] /\ a[1] < b[1])

\* The results of the last rerank are the first k entries of the documents'
\* (index, score) pairs in the order of Before
IsTopK(out, scores, k) ==
  LET n == Len(scores) IN
    /\ Len(out) = k
    /\ \A i \in 1..Len(out) :
         out[i][1] \in 0..(n - 1) /\ out[i][2] = scores[out[i][1] + 1]
    /\ \A i, j \in 1..Len(out) : i < j => Before(out[i], out[j])
    /\ \A d \in 0..(n - 1) :
         (\A i \in 1..Len(out) : out[i][1] # d) =>
           \A i \in 1..Len(out) : Before(out[i], <<d, scores[d + 1]>>)

\* C25: rerank returns the first min(top_k, len(documents)) entries of the
\* (index, score) pairs sorted by score descending, ties in ascending
\* index, each index at most once; top_k is 10 when the request has none,
\* and a top_k above the number of documents returns all of them.
C25_RerankTopK ==
  (r_pc = "done" /\ r_err = "none") =>
    LET k == IF r_top_k = Absent THEN 10 ELSE r_top_k.val
    IN IsTopK(r_out, r_scores, Min(k, Len(r_scores)))

\* C27: in every model_status reply each memory field agrees with the
\* loaded flag of the same reply: embedder_memory_mb is 90 iff
\* embedder_loaded, reranker_memory_mb is 100 iff reranker_loaded, and
\* process_memory_mb is absent whenever llm_loaded is false, whatever other
\* workers, the idle monitor or shutdown do meanwhile.
C27_StatusFieldsAgree ==
  \A w \in Workers :
    (pc[w] = "loop" /\ result[w].status # <<>>) =>
      LET s == result[w].status IN
        /\ (s[4] = 90) <=> s[1]
        /\ (s[6] = 100) <=> s[3]
        /\ ~s[2] => s[5] = NoMemory

\* C28: the port_file is written atomically and only after the socket is
\* listening: whenever the port_file is there while the server runs, it
\* holds the complete port of a socket that is listening, never an empty or
\* partial value.
C28_PortFileComplete ==
  (running /\ port_file_exists) =>
    (sock = "listening" /\ port_file_text = "port")

\* C29: generate on an external client with no API key configured fails
\* with NotConfigured on every call, before any redaction or provider call,
\* and leaves total_redactions and the client as they were; a missing
\* api_key_file at construction is not an error and yields such an
\* unconfigured client.
C29_NoKeyNotConfigured ==
  /\ []((a_provider # "none" /\ a_key_src[1] \in {None, ""}
            /\ a_key_src[2] \in {None, "missing"}) => ~a_key)
  /\ []((a_provider # "none" /\ ~a_key) =>
          (~a_client /\ a_total = 0 /\ a_sent = NoPrompt
             /\ a_err \in {"none", "NotConfigured"}))
  /\ [][(a_calls' = a_calls + 1 /\ ~a_key) =>
          /\ a_err' = "NotConfigured"
          /\ a_sent' = NoPrompt
          /\ UNCHANGED <<a_total, a_client, a_key, a_provider, a_redact>>]_vars

\* A redacting client built with no api_key and a missing api_key_file has
\* refused its second generate as it refused the first, on a prompt that
\* holds a secret
C29_Witness ==
  /\ a_provider = "anthropic" /\ a_redact /\ a_key_src = <<None, "missing">>
  /\ a_calls = 2 /\ a_err = "NotConfigured" /\ a_raw # <<>>
  /\ a_total = 0 /\ ~a_client /\ a_sent = NoPrompt

\* The idle monitor thread takes a step
MonitorStep == mon_pc \in {"test", "sleep", "unload"} /\ mon_pc' # mon_pc

\* C31: a step of the idle monitor changes nothing but the local LLM
\* handle, and that only from loaded to unloaded; it never unloads an LLM
\* that was loaded or used within the last 300 seconds, and never alters
\* the embedder, the reranker, the external client or running.
C31_MonitorOnlyUnloadsIdleLlm ==
  [][MonitorStep =>
       /\ UNCHANGED <<emb_model, rr_model, llm_last_used, running, cfgVars,
                      lock, connVars, now>>
       /\ llm_model' # llm_model =>
             (llm_model /\ ~llm_model' /\ IdleSeconds > llm_idle_timeout)]_vars

\* C32: idle_seconds of the LLM handle is now - last_used while the handle
\* is loaded and 0 whenever it is not loaded, before the first load and
\* after any unload.  The handle is looked at while no load or generate is
\* in progress on it.
C32_IdleSecondsZeroWhenUnloaded ==
  (HasLlm /\ \A w \in Workers : ~InLlm(w)) =>
    IdleSeconds = IF llm_model THEN now - llm_last_used ELSE 0

\* A call of the engine has just been made
EngineCalled(name) == e_ops' = e_ops + 1 /\ e_op'.name = name

\* C36: load on the LLM handle while it is loaded, with or without a path
\* argument, only refreshes last_used: the loaded model and model_path stay
\* as they were, no download is attempted, and the load returns, so that
\* load_model replies "loaded".
C36_LoadWhenLoadedOnlyRefreshes ==
  [][(EngineCalled("load") /\ e_model # None) =>
       /\ UNCHANGED <<e_model, e_model_path, e_built, e_files, e_downloads>>
       /\ e_last_used' = e_now
       /\ e_op'.ok]_vars

\* An engine loaded from the default path was, one tick later, asked to load
\* another path whose file is missing: nothing but last_used has changed
C36_Witness ==
  /\ e_ops = 2 /\ e_op = [name |-> "load", path |-> "other", ok |-> TRUE]
  /\ e_model = DefaultPath /\ e_model_path = DefaultPath /\ e_built = 1
  /\ e_files = {DefaultPath} /\ e_downloads = 1
  /\ e_now = StartTime + 1 /\ e_last_used = e_now

\* C39: last_used changes only when a load or a generate succeeds: a load
\* that fails and a generate whose runtime call raises leave last_used as
\* it was.
\* (The load that generate makes when there is no model counts as a load.)
C39_LastUsedOnlyOnSuccess ==
  [][e_last_used' # e_last_used =>
       \/ (EngineCalled("load") \/ EngineCalled("generate")) /\ e_op'.ok
       \/ EngineCalled("generate") /\ e_model = None /\ e_model' # None]_vars

\* the positions 1..n in order
UpTo(n) == [i \in 1..n |-> i]

\* C33: on a single connection requests are handled one at a time in
\* arrival order: frame k+1 is not read before the reply to frame k has
\* been sent, and the replies appear in request order.
C33_OneAtATimeInOrder ==
  /\ \A c \in Conns :
        /\ k_read[c] = UpTo(Len(k_read[c]))
        /\ IsPrefix(k_replied[c], k_read[c])
        /\ Len(k_read[c]) - Len(k_replied[c]) <= 1
  /\ [][\A c \in Conns :
          k_read'[c] # k_read[c] => k_replied[c] = k_read[c]]_vars

\* Both connections have had two frames written; on each the second was
\* read after the first had been answered and is about to be answered
C33_Witness ==
  \A c \in Conns :
    /\ k_written[c] = 2 /\ k_replied[c] = <<1>> /\ k_read[c] = <<1, 2>>
    /\ k_pc[c] = "reply"

\* C38: once running has become false, each connection worker handles at
\* most one further request and then closes its connection; no worker
\* keeps serving requests after shutdown.
C38_AtMostOneAfterStop ==
  /\ [](\A c \in Conns : k_after[c] <= 1)
  /\ \A c \in Conns : (~k_running) ~> (k_pc[c] = "closed")

\* A worker that was waiting in recv when running became false has
\* answered one more frame and closed, with another frame left unread
C38_Witness ==
  \E c \in Conns :
    /\ ~k_running /\ k_after[c] = 1 /\ k_pc[c] = "closed"
    /\ k_replied[c] = k_read[c] /\ k_inbox[c] # <<>>

\* The last download ended in a failed transfer or a failed file operation
TransferFailed ==
  d_pc = "ready" /\ d_err \in {"URLError", "OSError", "IncompleteRead",
                                "DownloadFailed"}

\* C34: if the transfer or a file operation fails after the staging file
\* has been created, download removes the staging file and fails with
\* DownloadFailed: neither a staging file nor a final file is left behind,
\* for models.download_model and for LlmEngine._download_model alike.
C34_FailedDownloadLeavesNothing ==
  TransferFailed =>
    /\ d_staging = "absent"
    /\ d_final = "absent"

\* a character of the prompts (the replacement text has none of them)
IsTextChar(c) == c \in Chars

\* the characters of text that lie outside every span of ms, in order
OutsideSpans(text, ms) ==
  LET keep == {i \in 1..Len(text) :
                 \A k \in 1..Len(ms) : ~(ms[k].start < i /\ i <= ms[k].end)}
      F[i \in 0..Len(text)] ==
        IF i = 0 THEN <<>>
        ELSE IF i \in keep THEN Append(F[i - 1], text[i]) ELSE F[i - 1]
  IN F[Len(text)]

\* C35: redact changes only the detected spans: for every list of distinct
\* spans the detector can produce, overlapping or not, every character of
\* the input outside all detected spans appears unchanged and in its
\* original order in the output, and no character inside a detected span
\* appears in it.
C35_RedactChangesOnlySpans ==
  (Handed /\ a_redact) =>
    SelectSeq(a_sent, IsTextChar) = OutsideSpans(a_prompt, DetectSecrets(a_raw))

\* A worker has a request for a handler that runs under the mutex and has
\* not acquired it yet
AtLock(w) == alive /\ pc[w] = "dispatch" /\ cur[w].method \in LockMethods

\* A step of the body of a handler that runs under the mutex
HandlerStep(w) ==
  \/ HEmbed(w) \/ HRerank(w) \/ HLoadModel(w) \/ HUnloadModel(w)
  \/ HGenerate(w) \/ LlmLoad(w) \/ LlmLoadDone(w) \/ GenCall(w) \/ GenDone(w)

\* C37: the mutex is held only while a model-touching handler is
\* executing: a handler that returns or raises releases it, so after any
\* failed request a later embed, generate, rerank, load_model or
\* unload_model can still acquire it, and no state is reachable in which
\* workers wait for the mutex while nobody who holds it is running.
C37_MutexReleasedOnFailure ==
  /\ [](lock # 0 => InHandler(lock))
  /\ [][\A w \in Workers :
          (InHandler(w) /\ pc'[w] \in {"loop", "closed"}) => lock' = 0]_vars
  /\ [](\A w \in Workers :
          AtLock(w) =>
            \/ ENABLED HAcquire(w)
            \/ \E v \in Workers \ {w} : InHandler(v) /\ ENABLED HandlerStep(v))

\* Worker 1 was answered an error by an embed whose backend raised, and
\* worker 2 has acquired the mutex after that
C37_Witness ==
  /\ pc[1] = "loop" /\ reply[1].code = INTERNAL_ERROR
  /\ locals[1].called = "embedder"
  /\ lock = 2 /\ pc[2] = "locked"
====
